---- MODULE Spec2Model ----
(***************************************************************************)
(* University Performance Analyzer: grade scale, per-student GPA and the   *)
(* aggregate views of src/src/grading.py and src/src/analytics.py.         *)
(*                                                                         *)
(* Units.  Numbers are fixed-point integers:                               *)
(*   marks         hundredths of a mark      (85.0  -> 8500)               *)
(*   credit hours  tenths of a credit        (3.0   -> 30)                 *)
(*   grade points  tenths of a point         (3.7   -> 37)                 *)
(*   GPA values    thousandths               (3.85  -> 3850)               *)
(*   percentages   hundredths of a percent   (33.33 -> 3333)               *)
(* Python's round(x, k) is modelled on the exact quotient, ties to even.   *)
(***************************************************************************)
EXTENDS Integers, Sequences, FiniteSets, TLC

VARIABLES scale, df, columns, op, arg, res

vars == <<scale, df, columns, op, arg, res>>

\* ------------------------------------------------------------------ bounds
\* Longest grade_boundaries table of a generated custom scale.
MaxBoundaries == 2
\* Most course records of one student handed to the per-student GPA.
MaxRecords == 3

\* ------------------------------------------------------------- small helpers
Range(f) == {f[x] : x \in DOMAIN f}

\* The empty dict / the empty config.
EmptyDict == [k \in {} |-> 0]

\* Nearest integer to a / b (b # 0), ties to the even neighbour.
RoundDiv(a, b) ==
    LET n == IF b < 0 THEN -a ELSE a
        d == IF b < 0 THEN -b ELSE b
        q == n \div d
        r == n % d
    IN  IF 2 * r < d THEN q
        ELSE IF 2 * r > d THEN q + 1
        ELSE IF q % 2 = 0 THEN q ELSE q + 1

\* ----------------------------------------------------------------- config.py
DEFAULT_GRADE_MAPPINGS ==
    [s \in {"4.0", "100"} |->
        IF s = "4.0"
        THEN [g \in {"A+", "A", "A-", "B+", "B", "B-", "C+", "C", "C-", "D+", "D", "F"} |->
                CASE g = "A+" -> 40 [] g = "A" -> 40 [] g = "A-" -> 37
                  [] g = "B+" -> 33 [] g = "B" -> 30 [] g = "B-" -> 27
                  [] g = "C+" -> 23 [] g = "C" -> 20 [] g = "C-" -> 17
                  [] g = "D+" -> 13 [] g = "D" -> 10 [] g = "F" -> 0]
        ELSE [g \in {"A+", "A", "A-", "B+", "B", "B-", "C+", "C", "C-", "D+", "D", "F"} |->
                CASE g = "A+" -> 950 [] g = "A" -> 900 [] g = "A-" -> 850
                  [] g = "B+" -> 800 [] g = "B" -> 750 [] g = "B-" -> 700
                  [] g = "C+" -> 650 [] g = "C" -> 600 [] g = "C-" -> 550
                  [] g = "D+" -> 500 [] g = "D" -> 450 [] g = "F" -> 0]]

\* One entry of a boundary table: grade label, inclusive [min, max] in hundredths.
Bound(g, lo, hi) == [grade |-> g, min |-> lo * 100, max |-> hi * 100]

GRADE_BOUNDARIES ==
    [s \in {"4.0", "100"} |->
        IF s = "4.0"
        THEN << Bound("A+", 97, 100), Bound("A", 93, 96), Bound("A-", 90, 92),
                Bound("B+", 87, 89), Bound("B", 83, 86), Bound("B-", 80, 82),
                Bound("C+", 77, 79), Bound("C", 73, 76), Bound("C-", 70, 72),
                Bound("D+", 67, 69), Bound("D", 63, 66), Bound("F", 0, 62) >>
        ELSE << Bound("A+", 95, 100), Bound("A", 90, 94), Bound("A-", 85, 89),
                Bound("B+", 80, 84), Bound("B", 75, 79), Bound("B-", 70, 74),
                Bound("C+", 65, 69), Bound("C", 60, 64), Bound("C-", 55, 59),
                Bound("D+", 50, 54), Bound("D", 45, 49), Bound("F", 0, 44) >>]

get_grade_mapping(s) ==
    IF s \in DOMAIN DEFAULT_GRADE_MAPPINGS
    THEN DEFAULT_GRADE_MAPPINGS[s] ELSE DEFAULT_GRADE_MAPPINGS["4.0"]

get_grade_boundaries(s) ==
    IF s \in DOMAIN GRADE_BOUNDARIES
    THEN GRADE_BOUNDARIES[s] ELSE GRADE_BOUNDARIES["4.0"]

\* --------------------------------------------------------------- GradeScale
\* A scale is [scale_type, grade_mappings, grade_boundaries, passing_grade];
\* grade_mappings is a dict label -> points, grade_boundaries the dict's
\* entries in insertion order.
_apply_custom_config(self, config) ==
    [ scale_type       |-> self.scale_type,
      grade_mappings   |-> IF "grade_mappings" \in DOMAIN config
                           THEN config.grade_mappings ELSE self.grade_mappings,
      grade_boundaries |-> IF "grade_boundaries" \in DOMAIN config
                           THEN config.grade_boundaries ELSE self.grade_boundaries,
      passing_grade    |-> IF "passing_grade" \in DOMAIN config
                           THEN config.passing_grade ELSE self.passing_grade ]

GradeScale(scale_type, custom_config) ==
    LET self == [ scale_type       |-> scale_type,
                  grade_mappings   |-> get_grade_mapping(scale_type),
                  grade_boundaries |-> get_grade_boundaries(scale_type),
                  passing_grade    |-> "D" ]
    IN  IF DOMAIN custom_config # {}
        THEN _apply_custom_config(self, custom_config)
        ELSE self

create_custom_grade_scale(grade_mappings, grade_boundaries, passing_grade) ==
    GradeScale("custom", [ grade_mappings   |-> grade_mappings,
                           grade_boundaries |-> grade_boundaries,
                           passing_grade    |-> passing_grade ])

DEFAULT_4_0_SCALE == GradeScale("4.0", EmptyDict)
DEFAULT_100_SCALE == GradeScale("100", EmptyDict)

EUROPEAN_SCALE ==
    create_custom_grade_scale(
        [g \in {"A", "B", "C", "D", "F"} |->
            CASE g = "A" -> 40 [] g = "B" -> 30 [] g = "C" -> 20
              [] g = "D" -> 10 [] g = "F" -> 0],
        << Bound("A", 90, 100), Bound("B", 80, 89), Bound("C", 70, 79),
           Bound("D", 60, 69), Bound("F", 0, 59) >>,
        "D")

\* A mark as Python sees it: an int or float (kind "num", value v), a float
\* NaN (kind "nan"), or an object that is neither int nor float (kind "other").
Num(v) == [kind |-> "num", v |-> v]
NaN == [kind |-> "nan", v |-> 0]
NotANumber == [kind |-> "other", v |-> 0]

\* Mutant of ScanBoundaries: the upper end of a range is excluded.
RECURSIVE ScanBoundaries_ExclusiveMax(_, _, _)
ScanBoundaries_ExclusiveMax(bounds, v, i) ==
    IF i > Len(bounds) THEN "F"
    ELSE IF bounds[i].min <= v /\ v < bounds[i].max THEN bounds[i].grade
    ELSE ScanBoundaries_ExclusiveMax(bounds, v, i + 1)

\* The scan of grade_boundaries.items() from entry i on.
RECURSIVE ScanBoundaries(_, _, _)
ScanBoundaries(bounds, v, i) ==
    IF i > Len(bounds) THEN "F"
    ELSE IF bounds[i].min <= v /\ v <= bounds[i].max THEN bounds[i].grade
    ELSE ScanBoundaries(bounds, v, i + 1)

marks_to_grade(self, marks) ==
    IF marks.kind # "num" THEN "F"
    ELSE ScanBoundaries(self.grade_boundaries, marks.v, 1)

grade_to_points(self, grade) ==
    IF grade = "" \/ grade \notin DOMAIN self.grade_mappings THEN 0
    ELSE self.grade_mappings[grade]

marks_to_points(self, marks) == grade_to_points(self, marks_to_grade(self, marks))

BoundaryGrades(self) == {self.grade_boundaries[i].grade : i \in DOMAIN self.grade_boundaries}

\* Mutant of is_passing_grade: the passing grade itself does not pass.
is_passing_grade_Strict(self, grade) ==
    IF grade = "" THEN FALSE
    ELSE IF self.passing_grade \in BoundaryGrades(self)
         THEN grade_to_points(self, grade) > grade_to_points(self, self.passing_grade)
         ELSE grade # "F"

is_passing_grade(self, grade) ==
    IF grade = "" THEN FALSE
    ELSE IF self.passing_grade \in BoundaryGrades(self)
         THEN grade_to_points(self, grade) >= grade_to_points(self, self.passing_grade)
         ELSE grade # "F"

\* ------------------------------------------------------- grade scale inputs
\* Generated custom configurations: every grade_mappings dict over a subset
\* of CustomLabels, every grade_boundaries dict of at most MaxBoundaries
\* entries (distinct labels, ranges that may overlap or leave gaps), every
\* passing_grade among the labels.
CustomLabels == {"A", "D", "F"}
CustomPoints == {0, 10}
CustomRanges == { <<0, 59>>, <<60, 100>>, <<50, 69>>, <<69, 89>>, <<90, 100>> }

CustomMappings == UNION { [S -> CustomPoints] : S \in SUBSET CustomLabels }

CustomEntries == { Bound(g, r[1], r[2]) : g \in CustomLabels, r \in CustomRanges }

RECURSIVE BoundaryTables(_)
BoundaryTables(n) ==
    IF n = 0 THEN { <<>> }
    ELSE LET shorter == BoundaryTables(n - 1)
         IN  shorter \cup
             { Append(t, e) : t \in {x \in shorter : Len(x) = n - 1},
                              e \in CustomEntries } 

DistinctLabels(t) == \A i, j \in DOMAIN t : i # j => t[i].grade # t[j].grade

CustomBoundaries == { t \in BoundaryTables(MaxBoundaries) : DistinctLabels(t) }

GeneratedScales ==
    { create_custom_grade_scale(m, b, p) :
        m \in CustomMappings, b \in CustomBoundaries, p \in CustomLabels }

BuiltinScales == { DEFAULT_4_0_SCALE, DEFAULT_100_SCALE, EUROPEAN_SCALE }

AllScales == BuiltinScales \cup GeneratedScales

\* Marks handed to the conversions (hundredths): inside and outside [0, 100],
\* on range ends, in the gaps between integer range ends (59.5, 62.5, 89.5),
\* and every fifth mark from 55 to 95.
MarkValues == { -1000, 0, 4400, 5000, 5500, 5900, 5950, 6000, 6200, 6250, 6300,
                6500, 6900, 7000, 7500, 8000, 8500, 8950, 9000, 9500, 10000, 15000 }

MarkInputs == { Num(v) : v \in MarkValues } \cup { NaN, NotANumber }

GradeInputs == { "", "A", "A+", "D", "F", "X" }

\* ------------------------------------------------------ validate_grade_scale
\* Mutant of Overlapping: ranges that share only an end mark pass.
Overlapping_Strict(a, b) == ~(a.max <= b.min \/ b.max <= a.min)

\* not (max1 < min2 or max2 < min1)
Overlapping(a, b) == ~(a.max < b.min \/ b.max < a.min)

\* The errors of a scale: the boundary grades without a mapping in boundary
\* order, the mapping grades without a boundary (in the order of the dict),
\* one "overlapping" message for every boundary that overlaps another one,
\* and whether the passing grade has no mapping.
validate_grade_scale(self) ==
    LET bounds     == self.grade_boundaries
        NoMapping(b) == b.grade \notin DOMAIN self.grade_mappings
    IN  [ unmapped  |-> SelectSeq([i \in DOMAIN bounds |-> bounds[i]], NoMapping),
          unbounded |-> DOMAIN self.grade_mappings \ BoundaryGrades(self),
          overlaps  |-> Cardinality({ i \in DOMAIN bounds :
                            \E j \in DOMAIN bounds : i # j /\ Overlapping(bounds[i], bounds[j]) }),
          passing   |-> self.passing_grade \notin DOMAIN self.grade_mappings ]

\* len(errors)
ErrorCount(errors) ==
    Len(errors.unmapped) + Cardinality(errors.unbounded) + errors.overlaps
        + (IF errors.passing THEN 1 ELSE 0)

\* --------------------------------------------------- export_config, from_yaml
\* The outcome of a call: a value returned, or an exception raised.
Returned(v) == [raised |-> FALSE, value |-> v]
Raised == [raised |-> TRUE, value |-> 0]

\* The grade labels in the order of Python's string comparison, by which
\* yaml.dump sorts the keys of a mapping.
KeyOrder == << "A", "A+", "A-", "B", "B+", "B-", "C", "C+", "C-", "D", "D+", "F", "N", "P" >>

Rank(key) == CHOOSE i \in DOMAIN KeyOrder : KeyOrder[i] = key

RECURSIVE InsertByKey(_, _)
InsertByKey(sorted, node) ==
    IF Len(sorted) = 0 THEN <<node>>
    ELSE IF Rank(node.key) < Rank(Head(sorted).key) THEN <<node>> \o sorted
    ELSE <<Head(sorted)>> \o InsertByKey(Tail(sorted), node)

RECURSIVE SortByKey(_)
SortByKey(nodes) ==
    IF Len(nodes) = 0 THEN <<>>
    ELSE InsertByKey(SortByKey(SubSeq(nodes, 1, Len(nodes) - 1)), nodes[Len(nodes)])

\* The node yaml.dump writes for a boundary value: a Python tuple (min, max)
\* is written as a sequence tagged !!python/tuple.
TupleNode(b) == [key |-> b.grade, tag |-> "python/tuple", items |-> <<b.min, b.max>>]

\* yaml.dump(config): the document, mappings with sorted keys.
yaml_dump(config) ==
    [ scale_type       |-> config.scale_type,
      grade_mappings   |-> config.grade_mappings,
      grade_boundaries |-> SortByKey([i \in DOMAIN config.grade_boundaries |->
                                         TupleNode(config.grade_boundaries[i])]),
      passing_grade    |-> config.passing_grade ]

\* GradeScale.export_config: the content of the file written.
export_config(self) ==
    yaml_dump([ scale_type       |-> self.scale_type,
                grade_mappings   |-> self.grade_mappings,
                grade_boundaries |-> self.grade_boundaries,
                passing_grade    |-> self.passing_grade ])

\* The value yaml.safe_load builds for a plain sequence node: a list.
ListValue(node) == [grade |-> node.key, min |-> node.items[1], max |-> node.items[2], list |-> TRUE]

\* yaml.safe_load(document): the safe loader has no constructor for the
\* !!python/tuple tag and raises ConstructorError on it.
safe_load(document) ==
    IF \E i \in DOMAIN document.grade_boundaries :
           document.grade_boundaries[i].tag = "python/tuple"
    THEN Raised
    ELSE Returned([ scale_type       |-> document.scale_type,
                    grade_mappings   |-> document.grade_mappings,
                    grade_boundaries |-> [i \in DOMAIN document.grade_boundaries |->
                                             ListValue(document.grade_boundaries[i])],
                    passing_grade    |-> document.passing_grade ])

\* GradeScale.from_yaml on a file with the given content.
from_yaml(document) ==
    LET config == safe_load(document)
    IN  IF config.raised THEN Raised
        ELSE Returned(GradeScale(config.value.scale_type, config.value))

\* ------------------------------------------------- specification SpecGrade
\* One grade scale is constructed; a run then observes one call of one
\* conversion on it (the conversions keep no state between calls).
InitGrade ==
    /\ scale \in AllScales
    /\ df = <<>>
    /\ columns = {}
    /\ op = "init"
    /\ arg = NotANumber
    /\ res = ""

MarksToGrade ==
    \E m \in MarkInputs :
        /\ op = "init"
        /\ op' = "marks_to_grade"
        /\ arg' = m
        /\ res' = marks_to_grade(scale, m)
        /\ UNCHANGED <<scale, df, columns>>

GradeToPoints ==
    \E g \in GradeInputs :
        /\ op = "init"
        /\ op' = "grade_to_points"
        /\ arg' = g
        /\ res' = grade_to_points(scale, g)
        /\ UNCHANGED <<scale, df, columns>>

MarksToPoints ==
    \E m \in MarkInputs :
        /\ op = "init"
        /\ op' = "marks_to_points"
        /\ arg' = m
        /\ res' = marks_to_points(scale, m)
        /\ UNCHANGED <<scale, df, columns>>

IsPassingGrade ==
    \E g \in GradeInputs :
        /\ op = "init"
        /\ op' = "is_passing_grade"
        /\ arg' = g
        /\ res' = is_passing_grade(scale, g)
        /\ UNCHANGED <<scale, df, columns>>

ValidateGradeScale ==
    /\ op = "init"
    /\ op' = "validate_grade_scale"
    /\ res' = validate_grade_scale(scale)
    /\ UNCHANGED <<scale, df, columns, arg>>

\* The scale is exported to a file; arg holds the content of the file.
ExportConfig ==
    /\ op = "init"
    /\ op' = "export_config"
    /\ arg' = export_config(scale)
    /\ UNCHANGED <<scale, df, columns, res>>

\* A scale is read back from the exported file.
FromYaml ==
    /\ op = "export_config"
    /\ op' = "from_yaml"
    /\ res' = from_yaml(arg)
    /\ UNCHANGED <<scale, df, columns, arg>>

NextGrade ==
    \/ MarksToGrade \/ GradeToPoints \/ MarksToPoints \/ IsPassingGrade
    \/ ValidateGradeScale
    \/ ExportConfig \/ FromYaml

SpecGrade == InitGrade /\ [][NextGrade]_vars

\* ------------------------------------------------------------------ C3
\* The entries of grade_boundaries whose inclusive range contains value v.
Containing(self, v) ==
    { i \in DOMAIN self.grade_boundaries :
        self.grade_boundaries[i].min <= v /\ v <= self.grade_boundaries[i].max }

FirstOf(S) == CHOOSE i \in S : \A j \in S : i <= j

\* C3: for every scale and every numeric mark, marks_to_grade returns the
\* label of the first grade_boundaries entry, in insertion order, whose
\* inclusive range contains the mark; it returns "F" when no range contains
\* the mark, when the mark is NaN, and in no case fails to return a grade.
C3_FirstMatch ==
    op = "marks_to_grade" =>
        IF arg.kind = "num" /\ Containing(scale, arg.v) # {}
        THEN res = scale.grade_boundaries[FirstOf(Containing(scale, arg.v))].grade
        ELSE res = "F"

\* A mark inside two overlapping ranges got the label of the earlier one,
\* which is not the label of the later one.
C3_Witness ==
    /\ op = "marks_to_grade"
    /\ arg.kind = "num"
    /\ Cardinality(Containing(scale, arg.v)) = 2
    /\ \E i \in Containing(scale, arg.v) : scale.grade_boundaries[i].grade # res
    /\ res # "F"

\* ------------------------------------------------------------------ C4
\* C4 as stated: on every scale is_passing_grade(g) is true exactly when
\* grade_to_points(g) >= grade_to_points(passing_grade), and false for every
\* g that is empty or not a label of grade_mappings.
C4_AsStated ==
    op = "is_passing_grade" =>
        /\ res = (grade_to_points(scale, arg) >= grade_to_points(scale, scale.passing_grade))
        /\ (arg = "" \/ arg \notin DOMAIN scale.grade_mappings) => res = FALSE

\* C4 amended: when passing_grade is a label of grade_boundaries,
\* is_passing_grade(g) is true exactly when g is non-empty and
\* grade_to_points(g) >= grade_to_points(passing_grade), so it is false for
\* an empty g, and false for a g outside grade_mappings when the passing
\* grade has positive points; when passing_grade is not a label of
\* grade_boundaries it is true exactly when g is non-empty and not "F".
C4_Amended ==
    op = "is_passing_grade" =>
        /\ scale.passing_grade \in BoundaryGrades(scale) =>
             /\ res = (arg # "" /\ grade_to_points(scale, arg)
                                     >= grade_to_points(scale, scale.passing_grade))
             /\ ( /\ grade_to_points(scale, scale.passing_grade) > 0
                  /\ arg \notin DOMAIN scale.grade_mappings ) => res = FALSE
        /\ scale.passing_grade \notin BoundaryGrades(scale) =>
             res = (arg # "" /\ arg # "F")
        /\ arg = "" => res = FALSE

\* A custom scale whose passing grade has a boundary and positive points
\* rated the passing grade itself as passing.
C4_Witness ==
    /\ op = "is_passing_grade"
    /\ scale.scale_type = "custom"
    /\ scale.passing_grade \in BoundaryGrades(scale)
    /\ grade_to_points(scale, scale.passing_grade) > 0
    /\ arg = scale.passing_grade
    /\ res = TRUE

\* ------------------------------------------------------ per-student GPA
\* dict.get(key, default)
Get(record, key, default) == IF key \in DOMAIN record THEN record[key] ELSE default

\* Mutant of WeightedTotals: every record with non-zero credits is included.
RECURSIVE WeightedTotals_NonZero(_, _, _, _)
WeightedTotals_NonZero(records, self, i, acc) ==
    IF i > Len(records) THEN acc
    ELSE LET marks   == Get(records[i], "Marks", 0)
             credits == Get(records[i], "CreditHours", 0)
         IN  IF credits # 0
             THEN WeightedTotals_NonZero(records, self, i + 1,
                     [ total_points  |-> acc.total_points
                                          + marks_to_points(self, Num(marks)) * credits,
                       total_credits |-> acc.total_credits + credits ])
             ELSE WeightedTotals_NonZero(records, self, i + 1, acc)

\* The loop over the records from record i on: total_points (in 1/100) and
\* total_credits (in 1/10) accumulated over the records with credits > 0.
RECURSIVE WeightedTotals(_, _, _, _)
WeightedTotals(records, self, i, acc) ==
    IF i > Len(records) THEN acc
    ELSE LET marks   == Get(records[i], "Marks", 0)
             credits == Get(records[i], "CreditHours", 0)
         IN  IF credits > 0
             THEN WeightedTotals(records, self, i + 1,
                     [ total_points  |-> acc.total_points
                                          + marks_to_points(self, Num(marks)) * credits,
                       total_credits |-> acc.total_credits + credits ])
             ELSE WeightedTotals(records, self, i + 1, acc)

\* round(total_points / total_credits, 3), in thousandths.
RoundedGpa(acc) ==
    IF acc.total_credits = 0 THEN 0
    ELSE RoundDiv(100 * acc.total_points, acc.total_credits)

\* grading.compute_student_gpa: a list of dicts.
compute_student_gpa(student_records, self) ==
    IF Len(student_records) = 0 THEN 0
    ELSE RoundedGpa(WeightedTotals(student_records, self, 1,
                                   [total_points |-> 0, total_credits |-> 0]))

\* analytics._calculate_student_gpa: a data frame (rows and its columns).
_calculate_student_gpa(student_records, cols, self) ==
    IF Len(student_records) = 0 \/ cols = {}
       \/ "Marks" \notin cols \/ "CreditHours" \notin cols
    THEN 0
    ELSE RoundedGpa(WeightedTotals(student_records, self, 1,
                                   [total_points |-> 0, total_credits |-> 0]))

\* ----------------------------------------------- specification SpecStudent
\* A custom scale whose lowest grade carries points (a pass / no-pass scale).
PASS_NOPASS_SCALE ==
    create_custom_grade_scale(
        [g \in {"P", "N"} |-> IF g = "P" THEN 40 ELSE 10],
        << Bound("P", 50, 100), Bound("N", 0, 49) >>,
        "P")

StudentScales == BuiltinScales \cup { PASS_NOPASS_SCALE }

StudentMarks == { 5500, 8500, 9500 }
StudentCredits == { -10, 0, 30, 40 }

\* The records one student can have when the fields cols are present.
StudentRows(cols) ==
    { r \in [cols -> StudentMarks \cup StudentCredits] :
        /\ "Marks" \in cols => r["Marks"] \in StudentMarks
        /\ "CreditHours" \in cols => r["CreditHours"] \in StudentCredits }

InitStudent ==
    /\ scale \in StudentScales
    /\ columns \in SUBSET {"Marks", "CreditHours"}
    /\ df = <<>>
    /\ op = "init"
    /\ arg = NotANumber
    /\ res = ""

AddRecord ==
    /\ op = "init"
    /\ Len(df) < MaxRecords
    /\ \E r \in StudentRows(columns) : df' = Append(df, r)
    /\ UNCHANGED <<scale, columns, op, arg, res>>

ComputeStudentGpa ==
    /\ op = "init"
    /\ op' = "compute_student_gpa"
    /\ res' = Returned(compute_student_gpa(df, scale))
    /\ UNCHANGED <<scale, df, columns, arg>>

CalculateStudentGpa ==
    /\ op = "init"
    /\ op' = "_calculate_student_gpa"
    /\ res' = Returned(_calculate_student_gpa(df, columns, scale))
    /\ UNCHANGED <<scale, df, columns, arg>>

NextStudent == AddRecord \/ ComputeStudentGpa \/ CalculateStudentGpa

SpecStudent == InitStudent /\ [][NextStudent]_vars

\* ------------------------------------------------------------------ C1
\* The sum of f[x] over the x in S.
RECURSIVE SumOver(_, _)
SumOver(S, f) ==
    IF S = {} THEN 0
    ELSE LET x == CHOOSE y \in S : TRUE
         IN  f[x] + SumOver(S \ {x}, f)

\* The records that count: those with credit_hours > 0.
Included(records) == { i \in DOMAIN records : records[i]["CreditHours"] > 0 }

WeightedPointSum(records, self) ==
    SumOver(Included(records),
            [i \in Included(records) |->
                marks_to_points(self, Num(records[i]["Marks"])) * records[i]["CreditHours"]])

CreditSum(records) ==
    SumOver(Included(records), [i \in Included(records) |-> records[i]["CreditHours"]])

IsStudentGpaOp == op \in {"compute_student_gpa", "_calculate_student_gpa"}

\* C1: with Marks and CreditHours present and some record of positive
\* credit, the per-student GPA of both implementations is the sum of
\* marks_to_points(marks) x credit_hours over the records with
\* credit_hours > 0, divided by the sum of their credit_hours, rounded to
\* 3 decimals; records with credit_hours <= 0 enter neither sum.
C1_WeightedAverage ==
    (IsStudentGpaOp /\ columns = {"Marks", "CreditHours"} /\ Included(df) # {}) =>
        /\ ~res.raised
        /\ res.value = RoundDiv(10 * 10 * WeightedPointSum(df, scale), CreditSum(df))

\* A GPA was computed from records of which one has negative and one has
\* positive credit, and it is not zero.
C1_Witness ==
    /\ IsStudentGpaOp
    /\ columns = {"Marks", "CreditHours"}
    /\ \E i \in DOMAIN df : df[i]["CreditHours"] < 0
    /\ \E i \in DOMAIN df : df[i]["CreditHours"] > 0
    /\ \E i \in DOMAIN df : df[i]["CreditHours"] = 0
    /\ res.value > 0

\* ------------------------------------------------------------------ C2
\* A degenerate input of the per-student GPA: no records, no record of
\* positive credit, or the Marks or CreditHours field absent.
Degenerate ==
    \/ Len(df) = 0
    \/ "Marks" \notin columns
    \/ "CreditHours" \notin columns
    \/ \A i \in DOMAIN df : df[i]["CreditHours"] <= 0

\* C2: in every degenerate case both per-student GPA implementations return
\* exactly 0.0 and do not raise.
C2_DegenerateIsZero ==
    (IsStudentGpaOp /\ Degenerate) => (~res.raised /\ res.value = 0)

\* ------------------------------------------------------------- data frames
\* A data frame is its rows (df, a sequence of dicts column -> value) and
\* its column set; every row has exactly the frame's columns.

\* df.empty: no rows or no columns.
Empty(rows, cols) == Len(rows) = 0 \/ cols = {}

\* df[df[col] == v]
RowsWhere(rows, col, v) ==
    LET Test(r) == r[col] = v
    IN  SelectSeq(rows, Test)

\* df[col] as a sequence.
Column(rows, col) == [i \in DOMAIN rows |-> rows[i][col]]

Contains(seq, v) == \E i \in DOMAIN seq : seq[i] = v

\* Series.unique(): the distinct values in order of first appearance.
RECURSIVE UniqueFrom(_, _, _)
UniqueFrom(seq, i, acc) ==
    IF i > Len(seq) THEN acc
    ELSE UniqueFrom(seq, i + 1, IF Contains(acc, seq[i]) THEN acc ELSE Append(acc, seq[i]))

unique(rows, col) == UniqueFrom(Column(rows, col), 1, <<>>)

\* Series.nunique()
nunique(rows, col) == Len(unique(rows, col))

RECURSIVE SeqSum(_)
SeqSum(seq) == IF Len(seq) = 0 THEN 0 ELSE Head(seq) + SeqSum(Tail(seq))

SeqSumSq(seq) == SeqSum([i \in DOMAIN seq |-> seq[i] * seq[i]])

\* Ascending insertion of x into a sorted sequence.
RECURSIVE InsertAsc(_, _)
InsertAsc(sorted, x) ==
    IF Len(sorted) = 0 THEN <<x>>
    ELSE IF x < Head(sorted) THEN <<x>> \o sorted
    ELSE <<Head(sorted)>> \o InsertAsc(Tail(sorted), x)

RECURSIVE SortAsc(_)
SortAsc(seq) == IF Len(seq) = 0 THEN <<>> ELSE InsertAsc(SortAsc(Tail(seq)), Head(seq))

\* Twice the median of a non-empty sequence (the middle value, or the mean
\* of the two middle values), kept doubled to stay in the integers.
TwiceMedian(seq) ==
    LET sorted == SortAsc(seq)
        n      == Len(seq)
    IN  IF n % 2 = 1 THEN 2 * sorted[(n + 1) \div 2]
        ELSE sorted[n \div 2] + sorted[n \div 2 + 1]

\* A float result that can be NaN.
Float(v) == [nan |-> FALSE, v |-> v]
FloatNaN == [nan |-> TRUE, v |-> 0]

\* The nearest integer to sqrt(num / den), num >= 0, den > 0: the r with
\* (2r - 1)^2 den <= 4 num < (2r + 1)^2 den, found by bisection.
RECURSIVE SqrtUpper(_, _, _)
SqrtUpper(num, den, h) ==
    IF 4 * num < (2 * h + 1) * (2 * h + 1) * den THEN h
    ELSE SqrtUpper(num, den, 2 * h + 1)

RECURSIVE SqrtBisect(_, _, _, _)
SqrtBisect(num, den, lo, hi) ==
    IF lo >= hi THEN lo
    ELSE LET mid == (lo + hi) \div 2
         IN  IF 4 * num < (2 * mid + 1) * (2 * mid + 1) * den
             THEN SqrtBisect(num, den, lo, mid)
             ELSE SqrtBisect(num, den, mid + 1, hi)

RoundSqrt(num, den) == SqrtBisect(num, den, 0, SqrtUpper(num, den, 0))

\* n * sum(x^2) - sum(x)^2 = n^2 * (population variance of seq).
ScaledVariance(seq) == Len(seq) * SeqSumSq(seq) - SeqSum(seq) * SeqSum(seq)

\* round(np.mean(values), 3), round(np.median(values), 3) and
\* round(np.std(values), 3) of GPA values in thousandths (ddof = 0).
NpMean(values) == RoundDiv(SeqSum(values), Len(values))
NpMedian(values) == RoundDiv(TwiceMedian(values), 2)
NpStd(values) == RoundSqrt(ScaledVariance(values), Len(values) * Len(values))

\* round(marks.mean() / 25, 3), round(marks.median() / 25, 3) and
\* round(marks.std() / 25, 3) of marks in hundredths, in thousandths;
\* pandas' std is the sample deviation (ddof = 1), NaN for a single value.
ProxyMean(marks) == RoundDiv(2 * SeqSum(marks), 5 * Len(marks))
ProxyMedian(marks) == RoundDiv(2 * TwiceMedian(marks), 5 * 2)
ProxyStd(marks) ==
    IF Len(marks) < 2 THEN FloatNaN
    ELSE Float(RoundSqrt(4 * ScaledVariance(marks), 25 * Len(marks) * (Len(marks) - 1)))

\* No grade scale supplied (scale=None).
NoScale ==
    [ scale_type |-> "none", grade_mappings |-> EmptyDict,
      grade_boundaries |-> <<>>, passing_grade |-> "" ]

HasScale(self) == self.scale_type # "none"

\* The per-student GPA of every student of the frame, in order of first
\* appearance of the StudentID.
StudentGpas(rows, cols, self) ==
    LET ids == unique(rows, "StudentID")
    IN  [i \in DOMAIN ids |->
            _calculate_student_gpa(RowsWhere(rows, "StudentID", ids[i]), cols, self)]

\* Mutant of PassingByGpa: a GPA equal to the threshold does not pass.
PassingByGpa_Strict(rows, cols, self) ==
    LET gpas == StudentGpas(rows, cols, self)
        passing_threshold == grade_to_points(self, self.passing_grade)
    IN  Cardinality({i \in DOMAIN gpas : gpas[i] > 100 * passing_threshold})

\* The number of students whose GPA reaches the passing threshold.
PassingByGpa(rows, cols, self) ==
    LET gpas == StudentGpas(rows, cols, self)
        passing_threshold == grade_to_points(self, self.passing_grade)
    IN  Cardinality({i \in DOMAIN gpas : gpas[i] >= 100 * passing_threshold})

\* The number of students whose mean mark is at least 60.
PassingByMarks(rows) ==
    LET ids == unique(rows, "StudentID")
        marksOf(i) == Column(RowsWhere(rows, "StudentID", ids[i]), "Marks")
    IN  Cardinality({i \in DOMAIN ids : SeqSum(marksOf(i)) >= 6000 * Len(marksOf(i))})

\* round(passing / total * 100, 2) in hundredths of a percent, 0 for no students.
PassRate(passing_students, total_students) ==
    IF total_students > 0 THEN RoundDiv(10000 * passing_students, total_students) ELSE 0

\* The average / median / std-dev part of a summary: GPA statistics with a
\* scale, marks / 25 without one, zeros without a Marks column.
GpaStatistics(rows, cols, self) ==
    IF HasScale(self) /\ "Marks" \in cols /\ "CreditHours" \in cols
    THEN IF "StudentID" \notin cols THEN Raised
         ELSE LET student_gpas == StudentGpas(rows, cols, self)
              IN  Returned([ average_gpa |-> NpMean(student_gpas),
                             median_gpa  |-> NpMedian(student_gpas),
                             gpa_std_dev |-> Float(NpStd(student_gpas)) ])
    ELSE IF "Marks" \in cols
         THEN Returned([ average_gpa |-> ProxyMean(Column(rows, "Marks")),
                         median_gpa  |-> ProxyMedian(Column(rows, "Marks")),
                         gpa_std_dev |-> ProxyStd(Column(rows, "Marks")) ])
         ELSE Returned([ average_gpa |-> 0, median_gpa |-> 0, gpa_std_dev |-> Float(0) ])

\* The pass / fail part of a summary: the number of passing students, or
\* "no pass rate" when the frame has no Marks column.
PassingStudents(rows, cols, self) ==
    IF HasScale(self) /\ "Marks" \in cols
    THEN IF "StudentID" \notin cols THEN Raised
         ELSE Returned([counted |-> TRUE, passing |-> PassingByGpa(rows, cols, self)])
    ELSE IF "Marks" \in cols
         THEN IF "StudentID" \notin cols THEN Raised
              ELSE Returned([counted |-> TRUE, passing |-> PassingByMarks(rows)])
         ELSE Returned([counted |-> FALSE, passing |-> 0])

\* Mutant of cohort_summary: an empty frame is an error.
cohort_summary_RaisesOnEmpty(rows, cols, self) ==
    IF Empty(rows, cols)
    THEN Raised
    ELSE LET total_students == IF "StudentID" \in cols THEN nunique(rows, "StudentID") ELSE 0
             total_courses  == IF "CourseCode" \in cols THEN nunique(rows, "CourseCode") ELSE 0
             total_credits  == IF "CreditHours" \in cols
                               THEN SeqSum(Column(rows, "CreditHours")) ELSE 0
             stats          == GpaStatistics(rows, cols, self)
             passed         == PassingStudents(rows, cols, self)
         IN  IF stats.raised \/ passed.raised THEN Raised
             ELSE Returned(
                 [ total_students |-> total_students,
                   total_courses  |-> total_courses,
                   average_gpa    |-> stats.value.average_gpa,
                   median_gpa     |-> stats.value.median_gpa,
                   pass_rate      |-> IF passed.value.counted
                                      THEN PassRate(passed.value.passing, total_students)
                                      ELSE 0,
                   fail_count     |-> IF passed.value.counted
                                      THEN total_students - passed.value.passing
                                      ELSE total_students,
                   gpa_std_dev    |-> stats.value.gpa_std_dev,
                   total_credits  |-> total_credits ])

\* cohort_summary: the fixed summary of zeros for an empty frame, else the
\* counts, the GPA statistics and the pass / fail part.
cohort_summary(rows, cols, self) ==
    IF Empty(rows, cols)
    THEN Returned([ total_students |-> 0, total_courses |-> 0, average_gpa |-> 0,
                    median_gpa |-> 0, pass_rate |-> 0, fail_count |-> 0,
                    gpa_std_dev |-> Float(0), total_credits |-> 0 ])
    ELSE LET total_students == IF "StudentID" \in cols THEN nunique(rows, "StudentID") ELSE 0
             total_courses  == IF "CourseCode" \in cols THEN nunique(rows, "CourseCode") ELSE 0
             total_credits  == IF "CreditHours" \in cols
                               THEN SeqSum(Column(rows, "CreditHours")) ELSE 0
             stats          == GpaStatistics(rows, cols, self)
             passed         == PassingStudents(rows, cols, self)
         IN  IF stats.raised \/ passed.raised THEN Raised
             ELSE Returned(
                 [ total_students |-> total_students,
                   total_courses  |-> total_courses,
                   average_gpa    |-> stats.value.average_gpa,
                   median_gpa     |-> stats.value.median_gpa,
                   pass_rate      |-> IF passed.value.counted
                                      THEN PassRate(passed.value.passing, total_students)
                                      ELSE 0,
                   fail_count     |-> IF passed.value.counted
                                      THEN total_students - passed.value.passing
                                      ELSE total_students,
                   gpa_std_dev    |-> stats.value.gpa_std_dev,
                   total_credits  |-> total_credits ])

\* list.sort(key=lambda x: x[key], reverse=True): a stable descending sort.
\* Mutant of InsertDesc: an entry goes in front of the entries it ties with.
RECURSIVE InsertDesc_Unstable(_, _, _)
InsertDesc_Unstable(sorted, x, key) ==
    IF Len(sorted) = 0 THEN <<x>>
    ELSE IF Head(sorted)[key] <= x[key] THEN <<x>> \o sorted
    ELSE <<Head(sorted)>> \o InsertDesc_Unstable(Tail(sorted), x, key)

RECURSIVE InsertDesc(_, _, _)
InsertDesc(sorted, x, key) ==
    IF Len(sorted) = 0 THEN <<x>>
    ELSE IF Head(sorted)[key] < x[key] THEN <<x>> \o sorted
    ELSE <<Head(sorted)>> \o InsertDesc(Tail(sorted), x, key)

RECURSIVE SortDescFrom(_, _, _, _)
SortDescFrom(seq, key, i, acc) ==
    IF i > Len(seq) THEN acc
    ELSE SortDescFrom(seq, key, i + 1, InsertDesc(acc, seq[i], key))

\* Mutant of SortDesc: the list is left in its order of construction.
SortDesc_Unsorted(seq, key) == seq

SortDesc(seq, key) == SortDescFrom(seq, key, 1, <<>>)

\* Mutant of Slice: one entry too many.
Slice_OneMore(seq, n) == SubSeq(seq, 1, IF n + 1 < Len(seq) THEN n + 1 ELSE Len(seq))

\* seq[:n]
Slice(seq, n) ==
    IF n >= 0
    THEN SubSeq(seq, 1, IF n < Len(seq) THEN n ELSE Len(seq))
    ELSE SubSeq(seq, 1, IF Len(seq) + n > 0 THEN Len(seq) + n ELSE 0)

\* The leaderboard entry of one student.
StudentInfo(student_id, student_records, cols, self) ==
    [ student_id    |-> student_id,
      department    |-> Get(student_records[1], "Department", "Unknown"),
      gpa           |-> IF HasScale(self) /\ "Marks" \in cols /\ "CreditHours" \in cols
                        THEN _calculate_student_gpa(student_records, cols, self)
                        ELSE IF "Marks" \in cols
                             THEN ProxyMean(Column(student_records, "Marks"))
                             ELSE 0,
      total_credits |-> IF "CreditHours" \in cols
                        THEN SeqSum(Column(student_records, "CreditHours")) ELSE 0,
      courses_count |-> Len(student_records) ]

top_n_students(rows, cols, n, self) ==
    IF Empty(rows, cols) \/ "StudentID" \notin cols THEN Returned(<<>>)
    ELSE LET ids == unique(rows, "StudentID")
             student_gpas ==
                 [i \in DOMAIN ids |->
                     StudentInfo(ids[i], RowsWhere(rows, "StudentID", ids[i]), cols, self)]
         IN  Returned(Slice(SortDesc(student_gpas, "gpa"), n))

\* ------------------------------------------------ specification SpecCohort
\* Most rows of a record table.
MaxRows == 3

\* Labels are introduced in a fixed order (the next unused one), since the
\* views only test labels for equality: every table is a relabelling of one
\* built this way.
StudentIDs == <<"S1", "S2", "S3", "S4", "S5">>
Departments == <<"CS", "Math">>
CourseCodes == <<"C1", "C2", "C3", "C4", "C5">>
Names == <<"Ann", "Bob">>

\* The values label column col may take in the next row: those in use and
\* the first unused one.
NextLabels(rows, col, labels) ==
    LET used == IF Len(rows) = 0 THEN 0 ELSE nunique(rows, col)
    IN  { labels[i] : i \in 1..(IF used < Len(labels) THEN used + 1 ELSE used) }

\* The values column col may take in the next row; numbers[col] gives the
\* values of a numeric column.
ColumnValues(rows, col, numbers) ==
    CASE col = "StudentID"   -> NextLabels(rows, col, StudentIDs)
      [] col = "Department"  -> NextLabels(rows, col, Departments)
      [] col = "CourseCode"  -> NextLabels(rows, col, CourseCodes)
      [] col = "Name"        -> NextLabels(rows, col, Names)
      [] OTHER               -> numbers[col]

\* Every row over the columns cols that can follow the rows of the frame.
RECURSIVE NextRowsOver(_, _, _, _)
NextRowsOver(rows, all, cols, numbers) ==
    IF cols = {} THEN { [x \in all |-> 0] }
    ELSE LET c == CHOOSE x \in cols : TRUE
         IN  { [r EXCEPT ![c] = v] :
                   r \in NextRowsOver(rows, all, cols \ {c}, numbers),
                   v \in ColumnValues(rows, c, numbers) }

NextRows(rows, cols, numbers) == NextRowsOver(rows, cols, cols, numbers)

\* The marks and credit hours of the tables of the cohort views.
CohortNumbers == [ Marks |-> { 4500, 8500 }, CreditHours |-> { 0, 30 } ]

\* The columns cohort_summary and top_n_students compute from; the other
\* columns of a full table (Name, Department, Semester, CourseName) are not
\* read by cohort_summary and only copied out by top_n_students.
CohortColumns == {"StudentID", "CourseCode", "Marks", "CreditHours"}

\* The column sets of the tables: all columns, or one column missing.
OneMissing(cols) == { cols } \cup { cols \ {c} : c \in cols }

TableScales == { NoScale, DEFAULT_4_0_SCALE, PASS_NOPASS_SCALE }

TopNInputs == { -1, 0, 1, 2, 10 }

InitCohort ==
    /\ scale \in TableScales
    /\ columns \in OneMissing(CohortColumns)
    /\ df = <<>>
    /\ op = "init"
    /\ arg = 0
    /\ res = ""

AddCohortRow ==
    /\ op = "init"
    /\ Len(df) < MaxRows
    /\ \E r \in NextRows(df, columns, CohortNumbers) : df' = Append(df, r)
    /\ UNCHANGED <<scale, columns, op, arg, res>>

CohortSummary ==
    /\ op = "init"
    /\ op' = "cohort_summary"
    /\ res' = cohort_summary(df, columns, scale)
    /\ UNCHANGED <<scale, df, columns, arg>>

TopNStudents ==
    \E n \in TopNInputs :
        /\ op = "init"
        /\ op' = "top_n_students"
        /\ arg' = n
        /\ res' = top_n_students(df, columns, n, scale)
        /\ UNCHANGED <<scale, df, columns>>

NextCohort == AddCohortRow \/ CohortSummary \/ TopNStudents

SpecCohort == InitCohort /\ [][NextCohort]_vars

\* ------------------------------------------------------------------ C5
\* The distinct values of a column, as a set.
Distinct(rows, cols, col) ==
    IF col \in cols THEN { rows[i][col] : i \in DOMAIN rows } ELSE {}

\* The students whose per-student GPA reaches grade_to_points(passing_grade).
PassingSet(rows, cols, self) ==
    { s \in Distinct(rows, cols, "StudentID") :
        _calculate_student_gpa(RowsWhere(rows, "StudentID", s), cols, self)
            >= 100 * grade_to_points(self, self.passing_grade) }

FullTableWithScale ==
    /\ Len(df) > 0
    /\ columns = CohortColumns
    /\ HasScale(scale)

CountsAsClaimed ==
    /\ ~res.raised
    /\ res.value.total_students = Cardinality(Distinct(df, columns, "StudentID"))
    /\ res.value.total_courses = Cardinality(Distinct(df, columns, "CourseCode"))
    /\ res.value.fail_count = res.value.total_students
                                - Cardinality(PassingSet(df, columns, scale))
    /\ 0 <= res.value.fail_count /\ res.value.fail_count <= res.value.total_students
    /\ 0 <= res.value.pass_rate /\ res.value.pass_rate <= 10000

\* C5 as stated: on a non-empty full table with a scale, cohort_summary
\* reports the distinct student and course counts, fail_count = students
\* minus passing students, and pass_rate = 100 x passing / students.
C5_AsStated ==
    (op = "cohort_summary" /\ FullTableWithScale) =>
        /\ CountsAsClaimed
        /\ res.value.pass_rate * res.value.total_students
             = 10000 * Cardinality(PassingSet(df, columns, scale))

\* C5 amended: as stated, with pass_rate = 100 x passing / students rounded
\* to 2 decimals.
C5_Amended ==
    (op = "cohort_summary" /\ FullTableWithScale) =>
        /\ CountsAsClaimed
        /\ res.value.pass_rate
             = RoundDiv(10000 * Cardinality(PassingSet(df, columns, scale)),
                        res.value.total_students)

\* A summary of three students of whom exactly one passes.
C5_Witness ==
    /\ op = "cohort_summary"
    /\ FullTableWithScale
    /\ res.value.total_students = 3
    /\ res.value.fail_count = 2
    /\ res.value.pass_rate = 3333

\* ------------------------------------------------------------------ C6
\* C6: with a scale and n at least the number of distinct students,
\* top_n_students returns one entry per student that cohort_summary counts
\* on the same table, and the entries with gpa >= grade_to_points(passing_grade)
\* are as many as cohort_summary's total_students - fail_count.
C6_ViewsConsistent ==
    LET summary == cohort_summary(df, columns, scale)
    IN  ( /\ op = "top_n_students"
          /\ HasScale(scale)
          /\ arg >= Cardinality(Distinct(df, columns, "StudentID"))
          /\ ~summary.raised ) =>
            /\ ~res.raised
            /\ Len(res.value) = summary.value.total_students
            /\ Cardinality({ i \in DOMAIN res.value :
                   res.value[i].gpa >= 100 * grade_to_points(scale, scale.passing_grade) })
                 = summary.value.total_students - summary.value.fail_count

\* ------------------------------------------------------------------ C10
LeaderboardSize == Len(res.value)

\* C10 as stated: for every table and every integer n, top_n_students
\* returns at most n entries, and exactly one per distinct student when
\* there are fewer than n distinct students.
C10_AsStated ==
    op = "top_n_students" =>
        /\ ~res.raised
        /\ LeaderboardSize <= arg
        /\ Cardinality(Distinct(df, columns, "StudentID")) < arg =>
             LeaderboardSize = Cardinality(Distinct(df, columns, "StudentID"))

\* C10 amended: the same for every integer n >= 0.
C10_Amended ==
    (op = "top_n_students" /\ arg >= 0) =>
        /\ ~res.raised
        /\ LeaderboardSize <= arg
        /\ Cardinality(Distinct(df, columns, "StudentID")) < arg =>
             LeaderboardSize = Cardinality(Distinct(df, columns, "StudentID"))

\* A leaderboard cut to fewer entries than there are students.
C10_Witness ==
    /\ op = "top_n_students"
    /\ arg = 2
    /\ Cardinality(Distinct(df, columns, "StudentID")) = 3
    /\ LeaderboardSize = 2

\* ------------------------------------------------------------- compute_gpa
\* np.average(points, weights=credits) of one group, rounded to 3 decimals;
\* it raises ZeroDivisionError when the weights sum to zero.
WeightedAverage(group, self) ==
    LET weights == Column(group, "CreditHours")
        points  == [i \in DOMAIN group |-> marks_to_points(self, Num(group[i]["Marks"]))]
        total   == SeqSum([i \in DOMAIN group |-> points[i] * weights[i]])
    IN  IF SeqSum(weights) = 0 THEN Raised
        ELSE Returned(RoundDiv(100 * total, SeqSum(weights)))

\* grading.compute_gpa: the series StudentID -> GPA, or the ValueError that
\* wraps any exception.
compute_gpa(records, cols, self) ==
    IF {"StudentID", "Marks", "CreditHours"} \ cols # {} THEN Raised
    ELSE LET ids == { records[i]["StudentID"] : i \in DOMAIN records }
             gpa_calculation ==
                 [s \in ids |-> WeightedAverage(RowsWhere(records, "StudentID", s), self)]
         IN  IF \E s \in ids : gpa_calculation[s].raised THEN Raised
             ELSE Returned([s \in ids |-> gpa_calculation[s].value])

\* --------------------------------------------------- specification SpecGpa
GpaColumns == {"StudentID", "Marks", "CreditHours"}

\* Marks, and credit hours that are negative, zero and positive.
GpaNumbers == [ Marks |-> { 4500, 8500 }, CreditHours |-> { -10, 0, 30 } ]

GpaScales == { DEFAULT_4_0_SCALE, PASS_NOPASS_SCALE }

InitGpa ==
    /\ scale \in GpaScales
    /\ columns \in OneMissing(GpaColumns)
    /\ df = <<>>
    /\ op = "init"
    /\ arg = 0
    /\ res = ""

AddGpaRow ==
    /\ op = "init"
    /\ Len(df) < MaxRows
    /\ \E r \in NextRows(df, columns, GpaNumbers) : df' = Append(df, r)
    /\ UNCHANGED <<scale, columns, op, arg, res>>

ComputeGpa ==
    /\ op = "init"
    /\ op' = "compute_gpa"
    /\ res' = compute_gpa(df, columns, scale)
    /\ UNCHANGED <<scale, df, columns, arg>>

NextGpa == AddGpaRow \/ ComputeGpa

SpecGpa == InitGpa /\ [][NextGpa]_vars

\* ------------------------------------------------------------------ C7
\* C7: on every table with StudentID, Marks and CreditHours, compute_gpa
\* does not fail (the per-student primitive never fails) and gives every
\* student the GPA that compute_student_gpa and _calculate_student_gpa give
\* for that student's rows, whatever the credit hours.
C7_SamePrimitive ==
    (op = "compute_gpa" /\ GpaColumns \subseteq columns) =>
        /\ ~res.raised
        /\ \A s \in Distinct(df, columns, "StudentID") :
             /\ res.value[s] = _calculate_student_gpa(RowsWhere(df, "StudentID", s),
                                                      columns, scale)
             /\ res.value[s] = compute_student_gpa(RowsWhere(df, "StudentID", s), scale)

\* ----------------------------------------------------- department_analysis
\* The statistics of one department's rows.
DepartmentStats(dept_df, cols, self) ==
    IF "StudentID" \notin cols \/ "CourseCode" \notin cols THEN Raised
    ELSE LET total_students == nunique(dept_df, "StudentID")
             total_courses  == nunique(dept_df, "CourseCode")
             stats          == GpaStatistics(dept_df, cols, self)
             passed         == PassingStudents(dept_df, cols, self)
         IN  IF stats.raised \/ passed.raised THEN Raised
             ELSE Returned(
                 [ total_students |-> total_students,
                   total_courses  |-> total_courses,
                   average_gpa    |-> stats.value.average_gpa,
                   median_gpa     |-> stats.value.median_gpa,
                   gpa_std_dev    |-> stats.value.gpa_std_dev,
                   pass_rate      |-> IF passed.value.counted
                                      THEN PassRate(passed.value.passing, total_students)
                                      ELSE 0 ])

department_analysis(rows, cols, self) ==
    IF Empty(rows, cols) \/ "Department" \notin cols THEN Returned(EmptyDict)
    ELSE LET depts == { rows[i]["Department"] : i \in DOMAIN rows }
             dept_analysis ==
                 [d \in depts |-> DepartmentStats(RowsWhere(rows, "Department", d), cols, self)]
         IN  IF \E d \in depts : dept_analysis[d].raised THEN Raised
             ELSE Returned([d \in depts |-> dept_analysis[d].value])

\* -------------------------------------------------- specification SpecDept
DeptColumns == {"StudentID", "Department", "CourseCode", "Marks", "CreditHours"}

InitDept ==
    /\ scale \in TableScales
    /\ columns \in OneMissing(DeptColumns)
    /\ df = <<>>
    /\ op = "init"
    /\ arg = 0
    /\ res = ""

AddDeptRow ==
    /\ op = "init"
    /\ Len(df) < MaxRows
    /\ \E r \in NextRows(df, columns, CohortNumbers) : df' = Append(df, r)
    /\ UNCHANGED <<scale, columns, op, arg, res>>

DepartmentAnalysis ==
    /\ op = "init"
    /\ op' = "department_analysis"
    /\ res' = department_analysis(df, columns, scale)
    /\ UNCHANGED <<scale, df, columns, arg>>

NextDept == AddDeptRow \/ DepartmentAnalysis

SpecDept == InitDept /\ [][NextDept]_vars

\* ------------------------------------------------------------------ C8
SharedFields ==
    {"total_students", "total_courses", "average_gpa", "median_gpa", "gpa_std_dev", "pass_rate"}

\* cohort_summary of the rows of department d succeeded, and the entry of d
\* in the department analysis carries the same six values.
SameAsCohort(d) ==
    LET summary == cohort_summary(RowsWhere(df, "Department", d), columns, scale)
    IN  ~summary.raised =>
          /\ ~res.raised
          /\ d \in DOMAIN res.value
          /\ \A f \in SharedFields : res.value[d][f] = summary.value[f]

\* C8: for every table, with or without a scale, and every department d of
\* the table, department_analysis(table)[d] has the total_students,
\* total_courses, average_gpa, median_gpa, gpa_std_dev and pass_rate of
\* cohort_summary on the rows of d.
C8_SameAsCohort ==
    op = "department_analysis" =>
        \A d \in Distinct(df, columns, "Department") : SameAsCohort(d)

\* The same restricted to tables with every column: a lemma, the part of
\* C8 the code satisfies.
C8_FullColumnsLemma ==
    (op = "department_analysis" /\ columns = DeptColumns) =>
        /\ ~res.raised
        /\ \A d \in Distinct(df, columns, "Department") : SameAsCohort(d)

\* ------------------------------------------------------------ subject_stats
None == [kind |-> "none"]
Some(v) == [kind |-> "some", v |-> v]

\* Series.idxmax(): the position of the first largest value.
idxmax(values) ==
    CHOOSE i \in DOMAIN values :
        /\ \A j \in DOMAIN values : values[j] <= values[i]
        /\ \A j \in 1..(i - 1) : values[j] < values[i]

\* (series >= threshold).sum()
CountAtLeast(values, threshold) ==
    Cardinality({ i \in DOMAIN values : values[i] >= threshold })

\* The statistics of the rows of one course.
SubjectStat(course_code, course_df, cols, self) ==
    LET total_students == Len(course_df)
        marks          == Column(course_df, "Marks")
        average_marks  == IF "Marks" \in cols
                          THEN RoundDiv(SeqSum(marks), total_students) ELSE 0
        ranked         == "Marks" \in cols /\ "Name" \in cols
        passing_threshold ==
            IF HasScale(self) /\ "Marks" \in cols
            THEN grade_to_points(self, self.passing_grade) * 250
            ELSE 6000
        passing_students ==
            IF "Marks" \in cols THEN CountAtLeast(marks, passing_threshold) ELSE 0
    IN  [ course_code    |-> course_code,
          course_name    |-> Get(course_df[1], "CourseName", course_code),
          department     |-> Get(course_df[1], "Department", "Unknown"),
          total_students |-> total_students,
          average_marks  |-> average_marks,
          pass_rate      |-> PassRate(passing_students, total_students),
          top_scorer     |-> IF ranked THEN Some(course_df[idxmax(marks)]["Name"]) ELSE None,
          top_score      |-> IF ranked THEN Some(marks[idxmax(marks)]) ELSE None,
          credit_hours   |-> Get(course_df[1], "CreditHours", 0) ]

\* Mutant of subject_stats: a table without a CourseCode column is an error.
subject_stats_Raising(rows, cols, self) ==
    IF Empty(rows, cols) THEN Returned(<<>>)
    ELSE IF "CourseCode" \notin cols THEN Raised
    ELSE LET codes == unique(rows, "CourseCode")
             subject_stats_list ==
                 [i \in DOMAIN codes |->
                     SubjectStat(codes[i], RowsWhere(rows, "CourseCode", codes[i]), cols, self)]
         IN  Returned(SortDesc(subject_stats_list, "average_marks"))

\* subject_stats: the empty list for an empty table or one without a
\* CourseCode column, else one entry per course, highest average first.
subject_stats(rows, cols, self) ==
    IF Empty(rows, cols) \/ "CourseCode" \notin cols THEN Returned(<<>>)
    ELSE LET codes == unique(rows, "CourseCode")
             subject_stats_list ==
                 [i \in DOMAIN codes |->
                     SubjectStat(codes[i], RowsWhere(rows, "CourseCode", codes[i]), cols, self)]
         IN  Returned(SortDesc(subject_stats_list, "average_marks"))

\* ----------------------------------------------- specification SpecSubject
SubjectColumns == {"CourseCode", "Name", "Marks", "CreditHours"}

SubjectNumbers == [ Marks |-> { 4500, 7000, 8550 }, CreditHours |-> { 30 } ]

InitSubject ==
    /\ scale \in TableScales
    /\ columns \in OneMissing(SubjectColumns)
    /\ df = <<>>
    /\ op = "init"
    /\ arg = 0
    /\ res = ""

AddSubjectRow ==
    /\ op = "init"
    /\ Len(df) < MaxRows
    /\ \E r \in NextRows(df, columns, SubjectNumbers) : df' = Append(df, r)
    /\ UNCHANGED <<scale, columns, op, arg, res>>

SubjectStats ==
    /\ op = "init"
    /\ op' = "subject_stats"
    /\ res' = subject_stats(df, columns, scale)
    /\ UNCHANGED <<scale, df, columns, arg>>

NextSubject == AddSubjectRow \/ SubjectStats

SpecSubject == InitSubject /\ [][NextSubject]_vars

\* ------------------------------------------------------------------ C9
\* C9: on a non-empty table with a CourseCode column, subject_stats returns
\* exactly one entry per distinct CourseCode, the total_students of an entry
\* is the number of rows of its course, and average_marks never increases
\* from an entry to the next.
C9_OnePerCourseSorted ==
    (op = "subject_stats" /\ Len(df) > 0 /\ "CourseCode" \in columns) =>
        /\ ~res.raised
        /\ Len(res.value) = Cardinality(Distinct(df, columns, "CourseCode"))
        /\ \A c \in Distinct(df, columns, "CourseCode") :
             \E i \in DOMAIN res.value :
                 /\ res.value[i].course_code = c
                 /\ res.value[i].total_students = Len(RowsWhere(df, "CourseCode", c))
        /\ \A i \in 1..(Len(res.value) - 1) :
             res.value[i].average_marks >= res.value[i + 1].average_marks

\* Two courses over three rows: the course entered second has the higher
\* average and comes out first; the other one counts its two rows.
C9_Witness ==
    /\ op = "subject_stats"
    /\ "Marks" \in columns
    /\ Len(df) = 3
    /\ ~res.raised
    /\ Len(res.value) = 2
    /\ res.value[1].course_code = "C2"
    /\ res.value[1].average_marks > res.value[2].average_marks
    /\ res.value[2].total_students = 2

\* ------------------------------------------------------------------ C11
\* The row at which a student is first encountered.
FirstRow(s) == CHOOSE i \in DOMAIN df : df[i]["StudentID"] = s /\ \A j \in 1..(i - 1) : df[j]["StudentID"] # s

\* The leaderboard GPA of a student of the table.
GpaOf(s) == StudentInfo(s, RowsWhere(df, "StudentID", s), columns, scale).gpa

\* A student with GPA gs comes before a student with GPA gt in the
\* per-student list ordered by GPA descending with ties in order of first
\* encounter.
RanksBefore(s, gs, t, gt) ==
    \/ gs > gt
    \/ gs = gt /\ FirstRow(s) < FirstRow(t)

Listed == { res.value[i].student_id : i \in DOMAIN res.value }

\* C11: the list returned by top_n_students is a prefix of the per-student
\* list ordered by GPA descending with ties in order of first encounter (of
\* length n when 0 <= n <= number of students): its entries are distinct
\* students with their GPA, in that order, and every student left out ranks
\* after every student in it, so none left out has a strictly higher GPA.
C11_StablePrefix ==
    (op = "top_n_students" /\ "StudentID" \in columns) =>
        /\ ~res.raised
        /\ Listed \subseteq Distinct(df, columns, "StudentID")
        /\ \A i \in DOMAIN res.value : res.value[i].gpa = GpaOf(res.value[i].student_id)
        /\ \A i, j \in DOMAIN res.value :
             i < j => /\ res.value[i].student_id # res.value[j].student_id
                      /\ RanksBefore(res.value[i].student_id, res.value[i].gpa,
                                     res.value[j].student_id, res.value[j].gpa)
        /\ \A s \in Distinct(df, columns, "StudentID") \ Listed :
             LET gs == GpaOf(s)
             IN  \A i \in DOMAIN res.value :
                     /\ RanksBefore(res.value[i].student_id, res.value[i].gpa, s, gs)
                     /\ gs <= res.value[i].gpa
        /\ (0 <= arg /\ arg <= Cardinality(Distinct(df, columns, "StudentID"))) =>
             Len(res.value) = arg

\* Two students tie and a third, met last, has the highest GPA: the top 2
\* are the third and then the first of the two.
C11_Witness ==
    /\ op = "top_n_students"
    /\ arg = 2
    /\ ~res.raised
    /\ Len(res.value) = 2
    /\ res.value[1].student_id = "S3"
    /\ res.value[2].student_id = "S1"
    /\ GpaOf("S2") = GpaOf("S1")

\* ------------------------------------------------------------------ C12
\* A GPA in thousandths lies in [0, 4].
InGpaRange(gpa) == 0 <= gpa /\ gpa <= 4000

\* C12: on the default 4.0 scale every GPA of a table with StudentID, Marks
\* and CreditHours lies in [0, 4]: every value of the compute_gpa series,
\* and the per-student GPA of compute_student_gpa and _calculate_student_gpa
\* for every student.
C12_GpaInRange ==
    (op = "compute_gpa" /\ scale = DEFAULT_4_0_SCALE /\ GpaColumns \subseteq columns) =>
        /\ \A s \in Distinct(df, columns, "StudentID") :
             /\ InGpaRange(_calculate_student_gpa(RowsWhere(df, "StudentID", s), columns, scale))
             /\ InGpaRange(compute_student_gpa(RowsWhere(df, "StudentID", s), scale))
        /\ ~res.raised => \A s \in DOMAIN res.value : InGpaRange(res.value[s])

\* The part of C12 that holds in the cohort views: the gpa of every
\* leaderboard entry and the average and median GPA of the summary, for
\* marks in [0, 100].
C12_CohortLemma ==
    LET summary == cohort_summary(df, columns, scale)
    IN  (op = "top_n_students" /\ scale = DEFAULT_4_0_SCALE) =>
          /\ \A i \in DOMAIN res.value : InGpaRange(res.value[i].gpa)
          /\ ~summary.raised =>
               InGpaRange(summary.value.average_gpa) /\ InGpaRange(summary.value.median_gpa)

\* ------------------------------------------------------------------ C13
\* C13: for every table, with or without a scale, cohort_summary does not
\* raise and every numeric field of the summary is a finite number; in
\* particular gpa_std_dev of a single sample is not NaN.
C13_FiniteSummary ==
    op = "cohort_summary" =>
        /\ ~res.raised
        /\ ~res.value.gpa_std_dev.nan

\* The same on tables with every column: the summary is returned, and the
\* standard deviation is the only field that can be NaN.
C13_SingleRowNaN ==
    (op = "cohort_summary" /\ columns = CohortColumns) =>
        /\ ~res.raised
        /\ res.value.gpa_std_dev.nan <=> (~HasScale(scale) /\ Len(df) = 1)

\* ------------------------------------------------------------------ C14
\* Two boundary ranges share a mark: the larger of the lower ends is not
\* above the smaller of the upper ends.
SharesMark(a, b) ==
    (IF a.min > b.min THEN a.min ELSE b.min) <= (IF a.max < b.max THEN a.max ELSE b.max)

Consistent(self) ==
    /\ BoundaryGrades(self) = DOMAIN self.grade_mappings
    /\ \A i, j \in DOMAIN self.grade_boundaries :
         i # j => ~SharesMark(self.grade_boundaries[i], self.grade_boundaries[j])
    /\ self.passing_grade \in DOMAIN self.grade_mappings

\* C14: validate_grade_scale returns the empty list exactly when the labels
\* of grade_boundaries and grade_mappings are the same set, no two boundary
\* ranges share a mark and passing_grade is a label of grade_mappings; and
\* the scale under validation was constructed from its configuration as
\* given, consistent or not.
C14_EmptyIffConsistent ==
    op = "validate_grade_scale" =>
        /\ ErrorCount(res) = 0 <=> Consistent(scale)
        /\ scale.scale_type = "custom" =>
             scale = create_custom_grade_scale(scale.grade_mappings, scale.grade_boundaries,
                                               scale.passing_grade)

\* A scale whose two ranges share exactly the end mark 69 and that is
\* otherwise consistent: one error per range.
C14_Witness ==
    /\ op = "validate_grade_scale"
    /\ Len(scale.grade_boundaries) = 2
    /\ scale.grade_boundaries[1].max = scale.grade_boundaries[2].min
    /\ BoundaryGrades(scale) = DOMAIN scale.grade_mappings
    /\ scale.passing_grade \in DOMAIN scale.grade_mappings
    /\ ErrorCount(res) = 2

\* ------------------------------------------------------------------ C15
\* C15: for every grade scale, built-in or custom, from_yaml on the document
\* written by export_config succeeds and yields a scale with the same
\* scale_type, grade_mappings, grade_boundaries and passing_grade.
C15_RoundTrip ==
    op = "from_yaml" =>
        /\ ~res.raised
        /\ res.value.scale_type = scale.scale_type
        /\ res.value.grade_mappings = scale.grade_mappings
        /\ res.value.grade_boundaries = scale.grade_boundaries
        /\ res.value.passing_grade = scale.passing_grade

\* What the round trip does: it fails exactly when the scale has a boundary,
\* and returns the same scale when grade_boundaries is empty.
C15_FailsOnBoundaries ==
    op = "from_yaml" =>
        /\ res.raised <=> Len(scale.grade_boundaries) > 0
        /\ ~res.raised => res.value = scale

\* -------------------------------------------------------- coerce_data_types
\* A cell of a raw table: a number v, a string s, or a missing value
\* (None / NaN).
Number(v) == [kind |-> "num", v |-> v, s |-> ""]
Str(s) == [kind |-> "str", v |-> 0, s |-> s]
Missing == [kind |-> "missing", v |-> 0, s |-> ""]

\* str.strip() on the strings of the tables.
Strip(s) ==
    CASE s = " S2 "  -> "S2"
      [] s = " Ann " -> "Ann"
      [] s = " 4.0 " -> "4.0"
      [] s = "  "    -> ""
      [] s = " StudentID "   -> "StudentID"
      [] s = " Name "        -> "Name"
      [] s = " CreditHours " -> "CreditHours"
      [] s = " Marks "       -> "Marks"
      [] OTHER       -> s

\* The strings float() parses, with their value; credit hours in tenths and
\* marks in hundredths.
NumericText == [ CreditHours |-> ("3.0" :> 30 @@ "4.0" :> 40),
                 Marks       |-> ("85.0" :> 8500 @@ "4.0" :> 400) ]

\* pd.to_numeric(series, errors='coerce') on one cell of column col.
to_numeric(cell, col) ==
    CASE cell.kind = "num" -> cell
      [] cell.kind = "str" ->
            IF Strip(cell.s) \in DOMAIN NumericText[col]
            THEN Number(NumericText[col][Strip(cell.s)]) ELSE Missing
      [] OTHER -> Missing

\* series.astype(str).str.strip() on one cell. What astype(str) makes of a
\* missing value depends on the pandas of the build: the string 'nan' /
\* 'None' (object columns), or the missing value itself (the str dtype that
\* keeps missing values); preserves_na tells which.
astype_str_strip(cell, preserves_na) ==
    CASE cell.kind = "str" -> Str(Strip(cell.s))
      [] cell.kind = "missing" -> IF preserves_na THEN Missing ELSE Str("nan")
      [] OTHER -> cell

string_columns == {"StudentID", "Name", "Department", "Semester", "CourseCode", "CourseName"}

critical_columns == {"StudentID", "Name", "Marks", "CreditHours"}

\* The conversions of coerce_data_types on one row.
CoerceRow(row, cols, preserves_na) ==
    [c \in cols |->
        IF c \in {"CreditHours", "Marks"} THEN to_numeric(row[c], c)
        ELSE IF c \in string_columns THEN astype_str_strip(row[c], preserves_na)
        ELSE row[c]]

\* dropna(subset=[col]) for every critical column of the frame.
Complete(row, cols) == \A c \in critical_columns \cap cols : row[c].kind # "missing"

\* coerce_data_types: the rows kept, each with its index label (the
\* position of the row in the input frame).
coerce_data_types(rows, cols, preserves_na) ==
    LET converted == [i \in DOMAIN rows |->
                         [index |-> i, row |-> CoerceRow(rows[i], cols, preserves_na)]]
        Kept(r)   == Complete(r.row, cols)
    IN  Returned(SelectSeq(converted, Kept))

\* ------------------------------------------------- specification SpecCoerce
CoerceColumns == {"StudentID", "Name", "Marks", "CreditHours"}

\* The cells of a raw table: values, values with blanks around them,
\* missing values, and text that is not a number.
RawCells ==
    [ StudentID   |-> { Str("S1"), Str(" S2 "), Missing },
      Name        |-> { Str(" Ann "), Missing },
      Marks       |-> { Number(8500), Str("85.0"), Str("abc"), Missing },
      CreditHours |-> { Number(30), Str(" 4.0 "), Str("abc") } ]

RawRows == { r \in [CoerceColumns -> UNION { RawCells[c] : c \in CoerceColumns }] :
                \A c \in CoerceColumns : r[c] \in RawCells[c] }

InitCoerce ==
    /\ scale = NoScale
    /\ columns = CoerceColumns
    /\ df = <<>>
    /\ op = "init"
    /\ arg = FALSE
    /\ res = ""

AddRawRow ==
    /\ op = "init"
    /\ Len(df) < MaxRows
    /\ \E r \in RawRows : df' = Append(df, r)
    /\ UNCHANGED <<scale, columns, op, arg, res>>

\* arg records which astype(str) the build has.
CoerceDataTypes ==
    \E preserves_na \in BOOLEAN :
        /\ op = "init"
        /\ op' = "coerce_data_types"
        /\ arg' = preserves_na
        /\ res' = coerce_data_types(df, columns, preserves_na)
        /\ UNCHANGED <<scale, df, columns>>

NextCoerce == AddRawRow \/ CoerceDataTypes

SpecCoerce == InitCoerce /\ [][NextCoerce]_vars

\* ------------------------------------------------------------------ C16
HasValue(cell) == cell.kind \in {"num", "str"}

Parseable(cell) == cell.kind = "num" \/ (cell.kind = "str" /\ cell.s \in {"85.0", "3.0", "4.0", " 4.0 "})

\* The rows the claim keeps: a value in each of StudentID, Name, Marks and
\* CreditHours, the last two parseable as numbers.
Wanted(row) ==
    /\ \A c \in {"StudentID", "Name", "Marks", "CreditHours"} : HasValue(row[c])
    /\ Parseable(row["Marks"]) /\ Parseable(row["CreditHours"])

RECURSIVE WantedIndexes(_)
WantedIndexes(n) ==
    IF n = 0 THEN <<>>
    ELSE IF Wanted(df[n]) THEN Append(WantedIndexes(n - 1), n) ELSE WantedIndexes(n - 1)

\* C16: coerce_data_types does not raise and returns exactly the input rows,
\* in input order, that have a value in each of StudentID, Name, Marks and
\* CreditHours with Marks and CreditHours parseable as numbers.
C16_KeepsComplete ==
    op = "coerce_data_types" =>
        /\ ~res.raised
        /\ [i \in DOMAIN res.value |-> res.value[i].index] = WantedIndexes(Len(df))

\* The same where astype(str) keeps missing values: the part of C16 that
\* depends on the build.
C16_WhenNaPreserved ==
    (op = "coerce_data_types" /\ arg = TRUE) =>
        /\ ~res.raised
        /\ [i \in DOMAIN res.value |-> res.value[i].index] = WantedIndexes(Len(df))

\* ------------------------------------------------------------ StudentRecord
\* str.title() and str.upper() on the strings of the tables.
Title(s) == CASE s = "ann lee" -> "Ann Lee" [] s = "cs" -> "Cs" [] OTHER -> s
Upper(s) ==
    CASE s = "cs101"       -> "CS101"
      [] s = "studentid"   -> "STUDENTID"
      [] s = "name"        -> "NAME"
      [] s = "department"  -> "DEPARTMENT"
      [] s = "semester"    -> "SEMESTER"
      [] s = "coursecode"  -> "COURSECODE"
      [] s = "coursename"  -> "COURSENAME"
      [] s = "credithours" -> "CREDITHOURS"
      [] s = "marks"       -> "MARKS"
      [] OTHER             -> s

\* not v or len(v.strip()) == 0
Blank(v) == v = "" \/ Strip(v) = ""

\* The fields StudentRecord(...) rejects. A row holds credit hours in
\* hundredths and marks in thousandths. Field(ge=0, le=10) and
\* Field(ge=0, le=100) are checked on the value given, then the validators
\* of the class.
RejectedFields(row) ==
    { f \in {"StudentID", "Name", "Department", "Semester", "CourseCode", "CourseName"} :
        Blank(row[f]) }
    \cup (IF row["CreditHours"] < 0 \/ row["CreditHours"] > 1000 \/ row["CreditHours"] <= 0
          THEN {"CreditHours"} ELSE {})
    \cup (IF row["Marks"] < 0 \/ row["Marks"] > 100000 THEN {"Marks"} ELSE {})

\* The record StudentRecord(...) stores for an accepted row: strings
\* stripped (names and departments in title case, course codes in upper
\* case), credit hours rounded to 1 decimal (tenths), marks rounded to 2
\* decimals (hundredths).
StudentRecord(row) ==
    [ student_id   |-> Strip(row["StudentID"]),
      name         |-> Title(Strip(row["Name"])),
      department   |-> Title(Strip(row["Department"])),
      semester     |-> Strip(row["Semester"]),
      course_code  |-> Upper(Strip(row["CourseCode"])),
      course_name  |-> Strip(row["CourseName"]),
      credit_hours |-> RoundDiv(row["CreditHours"], 10),
      marks        |-> RoundDiv(row["Marks"], 10) ]

\* An exception raised with a message.
RaisedWith(message) == [raised |-> TRUE, value |-> message]

\* The entry of the error message of row i: "Row i: ..." with the rejected
\* fields.
ErrorEntry(rows, i) == [row |-> i, fields |-> RejectedFields(rows[i])]

\* Mutant of validate_student_records: validation stops at the first
\* invalid row.
validate_student_records_FirstOnly(rows) ==
    LET Invalid(i) == RejectedFields(rows[i]) # {}
        positions  == [i \in DOMAIN rows |-> i]
        errors     == [k \in DOMAIN SelectSeq(positions, Invalid) |->
                          ErrorEntry(rows, SelectSeq(positions, Invalid)[k])]
    IN  IF Len(errors) > 0 THEN RaisedWith(SubSeq(errors, 1, 1))
        ELSE Returned([i \in DOMAIN rows |-> StudentRecord(rows[i])])

\* validate_student_records: every row is converted; the records of all
\* rows are returned, or ValidationError is raised with the entries of all
\* invalid rows.
validate_student_records(rows) ==
    LET Invalid(i) == RejectedFields(rows[i]) # {}
        positions  == [i \in DOMAIN rows |-> i]
        errors     == [k \in DOMAIN SelectSeq(positions, Invalid) |->
                          ErrorEntry(rows, SelectSeq(positions, Invalid)[k])]
    IN  IF Len(errors) > 0 THEN RaisedWith(errors)
        ELSE Returned([i \in DOMAIN rows |-> StudentRecord(rows[i])])

\* ------------------------------------------------ specification SpecRecords
RecordColumns ==
    {"StudentID", "Name", "Department", "Semester", "CourseCode", "CourseName",
     "CreditHours", "Marks"}

\* A valid row: 3.0 credit hours, marks 85.456.
BaseRow ==
    [ StudentID |-> "S1", Name |-> "ann lee", Department |-> "cs", Semester |-> "Fall",
      CourseCode |-> "cs101", CourseName |-> "Programming",
      CreditHours |-> 300, Marks |-> 85456 ]

\* Credit hours -1.0, 0, 0.04, 10.0, 10.04, 12.0 and marks -1.0, 0, 100.0,
\* 100.004, 150.0.
RecordCredits == { -100, 0, 4, 1000, 1004, 1200 }
RecordMarks == { -1000, 0, 100000, 100004, 150000 }

\* The rows of the tables: the valid row, and the row with one field
\* changed, or with both numbers invalid.
RecordRows ==
    { BaseRow }
    \cup { [BaseRow EXCEPT !["StudentID"] = v] : v \in { " S2 ", "", "  " } }
    \cup { [BaseRow EXCEPT !["Name"] = ""], [BaseRow EXCEPT !["Department"] = "  "] }
    \cup { [BaseRow EXCEPT !["CreditHours"] = v] : v \in RecordCredits }
    \cup { [BaseRow EXCEPT !["Marks"] = v] : v \in RecordMarks }
    \cup { [BaseRow EXCEPT !["Marks"] = 150000, !["CreditHours"] = 0] }

InitRecords ==
    /\ scale = NoScale
    /\ columns = RecordColumns
    /\ df = <<>>
    /\ op = "init"
    /\ arg = 0
    /\ res = ""

AddRecordRow ==
    /\ op = "init"
    /\ Len(df) < MaxRows
    /\ \E r \in RecordRows : df' = Append(df, r)
    /\ UNCHANGED <<scale, columns, op, arg, res>>

ValidateStudentRecords ==
    /\ op = "init"
    /\ op' = "validate_student_records"
    /\ res' = validate_student_records(df)
    /\ UNCHANGED <<scale, df, columns, arg>>

NextRecords == AddRecordRow \/ ValidateStudentRecords

SpecRecords == InitRecords /\ [][NextRecords]_vars

\* ------------------------------------------------------------------ C17
NonBlank(v) == v \notin {"", "  "}

\* A row validates: identifiers and names not empty, marks in [0, 100],
\* credit hours in (0, 10].
RowValid(row) ==
    /\ \A f \in RecordColumns \ {"CreditHours", "Marks"} : NonBlank(row[f])
    /\ 0 <= row["Marks"] /\ row["Marks"] <= 100000
    /\ 0 < row["CreditHours"] /\ row["CreditHours"] <= 1000

RECURSIVE InvalidRows(_)
InvalidRows(n) ==
    IF n = 0 THEN <<>>
    ELSE IF RowValid(df[n]) THEN InvalidRows(n - 1) ELSE Append(InvalidRows(n - 1), n)

\* C17: validate_student_records is all-or-nothing. If every row validates
\* it returns one record per row in row order; otherwise it returns nothing
\* and raises one ValidationError whose message has exactly one entry for
\* every invalid row, in row order.
C17_AllOrNothing ==
    op = "validate_student_records" =>
        IF \A i \in DOMAIN df : RowValid(df[i])
        THEN /\ ~res.raised
             /\ Len(res.value) = Len(df)
             /\ \A i \in DOMAIN df : res.value[i].student_id = Strip(df[i]["StudentID"])
        ELSE /\ res.raised
             /\ [k \in DOMAIN res.value |-> res.value[k].row] = InvalidRows(Len(df))

\* Three rows of which the first and the last are invalid: both are in the
\* message.
C17_Witness ==
    /\ op = "validate_student_records"
    /\ Len(df) = 3
    /\ res.raised
    /\ Len(res.value) = 2
    /\ res.value[1].row = 1
    /\ res.value[2].row = 3

\* ------------------------------------------------------------------ C18
\* C18: every record returned by validate_student_records stores credit
\* hours > 0 and <= 10 and marks in [0, 100].
C18_StoredRanges ==
    (op = "validate_student_records" /\ ~res.raised) =>
        \A i \in DOMAIN res.value :
            /\ 0 < res.value[i].credit_hours /\ res.value[i].credit_hours <= 100
            /\ 0 <= res.value[i].marks /\ res.value[i].marks <= 10000

\* The stored values stay in range except that credit hours may be 0.
C18_ZeroCreditsOnly ==
    (op = "validate_student_records" /\ ~res.raised) =>
        \A i \in DOMAIN res.value :
            /\ 0 <= res.value[i].credit_hours /\ res.value[i].credit_hours <= 100
            /\ 0 <= res.value[i].marks /\ res.value[i].marks <= 10000
            /\ res.value[i].credit_hours = 0 => df[i]["CreditHours"] = 4

\* ------------------------------------- validate_csv_columns, load_csv
REQUIRED_COLUMNS ==
    << "StudentID", "Name", "Department", "Semester", "CourseCode", "CourseName",
       "CreditHours", "Marks" >>

COLUMN_MAPPINGS ==
    [ student_id |-> "StudentID", student_name |-> "Name", dept |-> "Department",
      sem |-> "Semester", course_code |-> "CourseCode", course_name |-> "CourseName",
      credits |-> "CreditHours", marks |-> "Marks", grade |-> "Grade", gpa |-> "GPA" ]

\* str.lower() on the column names of the tables (the other names are in
\* lower case already).
LowerCased ==
    [ StudentID |-> "studentid", STUDENTID |-> "studentid", Name |-> "name", NAME |-> "name",
      Department |-> "department", Semester |-> "semester", CourseCode |-> "coursecode",
      CourseName |-> "coursename", CreditHours |-> "credithours", CREDITHOURS |-> "credithours",
      Marks |-> "marks", MARKS |-> "marks" ]

Lower(s) ==
    CASE s \in DOMAIN LowerCased -> LowerCased[s]
      [] s = " StudentID "       -> " studentid "
      [] s = " Name "            -> " name "
      [] s = " CreditHours "     -> " credithours "
      [] s = " Marks "           -> " marks "
      [] OTHER                   -> s

\* Mutant of validate_csv_columns: only the first missing column is reported.
validate_csv_columns_FirstOnly(rows, cols) ==
    IF Empty(rows, cols) THEN RaisedWith([kind |-> "empty_file", missing_columns |-> <<>>])
    ELSE LET df_columns == { Lower(Strip(c)) : c \in cols }
             Absent(req) == Lower(req) \notin df_columns
             absent      == SelectSeq(REQUIRED_COLUMNS, Absent)
         IN  IF Len(absent) > 0
             THEN RaisedWith([kind |-> "missing_columns",
                              missing_columns |-> <<Upper(Lower(absent[1]))>>])
             ELSE Returned("None")

\* validate_csv_columns: ValidationError "Uploaded file is empty" on an empty
\* frame, ValidationError naming the missing columns (in upper case, in the
\* order of REQUIRED_COLUMNS), or None.
validate_csv_columns(rows, cols) ==
    IF Empty(rows, cols) THEN RaisedWith([kind |-> "empty_file", missing_columns |-> <<>>])
    ELSE LET df_columns == { Lower(Strip(c)) : c \in cols }
             Absent(req) == Lower(req) \notin df_columns
             absent      == SelectSeq(REQUIRED_COLUMNS, Absent)
         IN  IF Len(absent) > 0
             THEN RaisedWith([kind |-> "missing_columns",
                              missing_columns |-> [i \in DOMAIN absent |-> Upper(Lower(absent[i]))]])
             ELSE Returned("None")

\* The name normalize_column_names gives column col: the alias table is
\* consulted after the required names and wins.
NormalizedName(col) ==
    LET col_clean == Lower(Strip(col))
    IN  IF col_clean \in DOMAIN COLUMN_MAPPINGS THEN COLUMN_MAPPINGS[col_clean]
        ELSE IF \E i \in DOMAIN REQUIRED_COLUMNS : col_clean = Lower(REQUIRED_COLUMNS[i])
             THEN REQUIRED_COLUMNS[CHOOSE i \in DOMAIN REQUIRED_COLUMNS :
                                       col_clean = Lower(REQUIRED_COLUMNS[i])]
             ELSE col

\* normalize_column_names: the frame with its columns renamed (no two
\* columns of the tables get the same name).
normalize_column_names(rows, cols) ==
    LET names     == { NormalizedName(c) : c \in cols }
        Source(n) == CHOOSE c \in cols : NormalizedName(c) = n
    IN  [ columns |-> names,
          rows    |-> [i \in DOMAIN rows |-> [n \in names |-> rows[i][Source(n)]]] ]

\* load_csv after the file is read: validate_csv_columns, then
\* normalize_column_names, then coerce_data_types; any exception leaves as
\* DataLoaderError.
load_csv(rows, cols, preserves_na) ==
    LET checked    == validate_csv_columns(rows, cols)
        normalized == normalize_column_names(rows, cols)
        coerced    == coerce_data_types(normalized.rows, normalized.columns, preserves_na)
    IN  IF checked.raised THEN RaisedWith([kind |-> "DataLoaderError", cause |-> checked.value])
        ELSE Returned([columns |-> normalized.columns, rows |-> coerced.value])

\* ------------------------------------------------ specification SpecColumns
\* The names a column can carry in a file: canonical, upper case, with
\* blanks around it, its alias; a column can also be absent. The four
\* columns Department, Semester, CourseCode and CourseName come either all
\* canonical or all under their alias.
HeaderNames ==
    [ StudentID   |-> { "StudentID", "STUDENTID", " StudentID ", "student_id" },
      Name        |-> { "Name", "NAME", " Name ", "student_name" },
      CreditHours |-> { "CreditHours", "CREDITHOURS", " CreditHours ", "credits" },
      Marks       |-> { "Marks", "MARKS", " Marks ", "marks" } ]

OtherHeaders ==
    { {"Department", "Semester", "CourseCode", "CourseName"},
      {"dept", "sem", "course_code", "course_name"},
      {"Department", "Semester", "CourseCode"} }

Headers ==
    { a \cup b \cup c \cup d \cup others :
        a \in { {} } \cup { {n} : n \in HeaderNames.StudentID },
        b \in { {} } \cup { {n} : n \in HeaderNames.Name },
        c \in { {} } \cup { {n} : n \in HeaderNames.CreditHours },
        d \in { {} } \cup { {n} : n \in HeaderNames.Marks },
        others \in OtherHeaders }

\* The row of a file: a number in the two numeric columns, text elsewhere.
FileRow(cols) ==
    [c \in cols |-> IF NormalizedName(c) \in {"CreditHours", "Marks"}
                    THEN Number(30) ELSE Str(" Ann ")]

InitColumns ==
    /\ scale = NoScale
    /\ columns \in Headers
    /\ df = <<>>
    /\ op = "init"
    /\ arg = FALSE
    /\ res = ""

AddFileRow ==
    /\ op = "init"
    /\ Len(df) < MaxRows
    /\ df' = Append(df, FileRow(columns))
    /\ UNCHANGED <<scale, columns, op, arg, res>>

ValidateCsvColumns ==
    /\ op = "init"
    /\ op' = "validate_csv_columns"
    /\ res' = validate_csv_columns(df, columns)
    /\ UNCHANGED <<scale, df, columns, arg>>

LoadCsv ==
    \E preserves_na \in BOOLEAN :
        /\ op = "init"
        /\ op' = "load_csv"
        /\ arg' = preserves_na
        /\ res' = load_csv(df, columns, preserves_na)
        /\ UNCHANGED <<scale, df, columns>>

NextColumns == AddFileRow \/ ValidateCsvColumns \/ LoadCsv

SpecColumns == InitColumns /\ [][NextColumns]_vars

\* ------------------------------------------------------------------ C19
Required == { REQUIRED_COLUMNS[i] : i \in DOMAIN REQUIRED_COLUMNS }

\* The required names without a case-insensitive match among the columns.
Unmatched == { r \in Required : \A c \in columns : Lower(c) # Lower(r) }

\* The same when blanks around a column name are ignored.
UnmatchedStripped == { r \in Required : \A c \in columns : Lower(Strip(c)) # Lower(r) }

Named == { res.value.missing_columns[i] : i \in DOMAIN res.value.missing_columns }

\* C19 as stated: validate_csv_columns fails exactly when the table is
\* empty ("Uploaded file is empty") or a required name has no
\* case-insensitive match among the columns, and then names every such
\* required column and no other.
C19_AsStated ==
    op = "validate_csv_columns" =>
        /\ res.raised <=> (Empty(df, columns) \/ Unmatched # {})
        /\ res.raised =>
             IF Empty(df, columns) THEN res.value.kind = "empty_file"
             ELSE /\ res.value.kind = "missing_columns"
                  /\ Named = { Upper(Lower(r)) : r \in Unmatched }

\* C19 amended: the match is case-insensitive after the blanks around the
\* column name are stripped.
C19_Amended ==
    op = "validate_csv_columns" =>
        /\ res.raised <=> (Empty(df, columns) \/ UnmatchedStripped # {})
        /\ res.raised =>
             IF Empty(df, columns) THEN res.value.kind = "empty_file"
             ELSE /\ res.value.kind = "missing_columns"
                  /\ Named = { Upper(Lower(r)) : r \in UnmatchedStripped }
                  /\ Len(res.value.missing_columns) = Cardinality(UnmatchedStripped)

\* A non-empty table without StudentID and CourseName, its Name column in
\* upper case: the message names exactly the two.
C19_Witness ==
    /\ op = "validate_csv_columns"
    /\ Len(df) > 0
    /\ "NAME" \in columns
    /\ res.raised
    /\ res.value.kind = "missing_columns"
    /\ res.value.missing_columns = << "STUDENTID", "COURSENAME" >>

\* ------------------------------------------------------------------ C20
AliasHeader ==
    { "student_id", "student_name", "dept", "sem", "course_code", "course_name",
      "credits", "marks" }

\* C20: a non-empty table whose columns carry the alias names is accepted
\* by the load pipeline and comes out with the canonical column names.
C20_AliasesAccepted ==
    (op = "load_csv" /\ columns = AliasHeader /\ Len(df) > 0) =>
        /\ ~res.raised
        /\ res.value.columns = Required

\* normalize_column_names alone maps the alias names to the canonical ones;
\* it is validate_csv_columns, called first, that rejects the table.
C20_RejectedByValidation ==
    (op = "load_csv" /\ columns = AliasHeader /\ Len(df) > 0) =>
        /\ normalize_column_names(df, columns).columns = Required
        /\ res.raised
        /\ res.value.cause.kind = "missing_columns"
        /\ Len(res.value.cause.missing_columns) = 7

\* ------------------------------------------------------------------ C21
\* C21: when a non-empty loaded table lacks a required column, load_csv
\* fails with the ValidationError of validate_csv_columns itself (the
\* "Required columns missing" error naming the columns), not with an error
\* of another kind.
C21_ValidationErrorReachesCaller ==
    (op = "load_csv" /\ Len(df) > 0 /\ UnmatchedStripped # {}) =>
        /\ res.raised
        /\ res.value = validate_csv_columns(df, columns).value
        /\ res.value.kind = "missing_columns"

\* What load_csv does with it: the ValidationError is caught by the final
\* handler of load_csv and leaves as a DataLoaderError that carries it.
C21_LeavesAsDataLoaderError ==
    (op = "load_csv" /\ Len(df) > 0 /\ UnmatchedStripped # {}) =>
        /\ res.raised
        /\ res.value.kind = "DataLoaderError"
        /\ res.value.cause = validate_csv_columns(df, columns).value
        /\ res.value.cause.kind = "missing_columns"

\* ------------------------------------------------------------------ C22
\* C22 as stated: subject_stats returns the empty list when the table is
\* empty, and fails with an error when a non-empty table has no CourseCode
\* column.
C22_AsStated ==
    op = "subject_stats" =>
        /\ Empty(df, columns) => (~res.raised /\ res.value = <<>>)
        /\ (~Empty(df, columns) /\ "CourseCode" \notin columns) => res.raised

\* C22 amended: subject_stats never fails for want of a CourseCode column;
\* it returns the empty list exactly when the table is empty or has no
\* CourseCode column.
C22_Amended ==
    op = "subject_stats" =>
        /\ ~res.raised
        /\ res.value = <<>> <=> (Empty(df, columns) \/ "CourseCode" \notin columns)

\* A table of two rows with marks and names but no CourseCode column: the
\* result is the empty list.
C22_Witness ==
    /\ op = "subject_stats"
    /\ Len(df) = 2
    /\ columns = SubjectColumns \ {"CourseCode"}
    /\ ~res.raised
    /\ res.value = <<>>

\* ------------------------------------------------------------------ C23
\* C23: on an empty record table, with or without a scale, cohort_summary
\* does not raise and returns total_students = 0, total_courses = 0,
\* average_gpa = 0.0, median_gpa = 0.0, pass_rate = 0.0, fail_count = 0,
\* gpa_std_dev = 0.0 and total_credits = 0.0.
C23_EmptySummary ==
    (op = "cohort_summary" /\ Empty(df, columns)) =>
        /\ ~res.raised
        /\ res.value.total_students = 0
        /\ res.value.total_courses = 0
        /\ res.value.average_gpa = 0
        /\ res.value.median_gpa = 0
        /\ res.value.pass_rate = 0
        /\ res.value.fail_count = 0
        /\ res.value.gpa_std_dev = Float(0)
        /\ res.value.total_credits = 0
        /\ DOMAIN res.value = { "total_students", "total_courses", "average_gpa", "median_gpa",
                                "pass_rate", "fail_count", "gpa_std_dev", "total_credits" }

\* The summary of an empty table under the 4.0 scale has been computed.
C23_Witness ==
    /\ op = "cohort_summary"
    /\ df = <<>>
    /\ scale = DEFAULT_4_0_SCALE
    /\ columns = CohortColumns
    /\ ~res.raised
    /\ res.value.total_students = 0

\* The same without a scale.
C23_WitnessNoScale ==
    /\ op = "cohort_summary"
    /\ df = <<>>
    /\ ~HasScale(scale)
    /\ ~res.raised
    /\ res.value.gpa_std_dev = Float(0)

\* ----------------------------------------------------- get_grade_statistics
\* An unrounded float: the quotient num / den, or NaN.
Ratio(num, den) == [nan |-> FALSE, num |-> num, den |-> den]
RatioNaN == [nan |-> TRUE, num |-> 0, den |-> 1]

\* Series.mean(), .median(), .min() and .max() of grade points in tenths:
\* NaN for an empty series.
SeriesMean(values) ==
    IF Len(values) = 0 THEN RatioNaN ELSE Ratio(SeqSum(values), Len(values))
SeriesMedian(values) ==
    IF Len(values) = 0 THEN RatioNaN ELSE Ratio(TwiceMedian(values), 2)
SeriesMin(values) ==
    IF Len(values) = 0 THEN RatioNaN ELSE Ratio(SortAsc(values)[1], 1)
SeriesMax(values) ==
    IF Len(values) = 0 THEN RatioNaN ELSE Ratio(SortAsc(values)[Len(values)], 1)

\* Series.std() (ddof = 1), given by its square, the sample variance: NaN
\* for fewer than two values.
SeriesStd(values) ==
    IF Len(values) < 2 THEN RatioNaN
    ELSE Ratio(ScaledVariance(values), Len(values) * (Len(values) - 1))

\* Series.value_counts().to_dict()
value_counts(values) ==
    [v \in Range(values) |-> Cardinality({ i \in DOMAIN values : values[i] = v })]

\* The entry of department_statistics for the rows of one department.
DeptGradeStats(dept_rows, points, self) ==
    [ total_students |-> nunique(dept_rows, "StudentID"),
      average_gpa    |-> SeriesMean(points),
      pass_rate      |-> Ratio(100 * CountAtLeast(points, grade_to_points(self, self.passing_grade)),
                               Len(points)) ]

\* get_grade_statistics: df['Marks'] is read first (a KeyError, re-raised as
\* ValueError, when the frame has no Marks column, with or without rows),
\* then the grades and points of the rows are counted; the department loop
\* reads StudentID for each department present.
get_grade_statistics(rows, cols, self) ==
    IF "Marks" \notin cols THEN Raised
    ELSE IF "Department" \in cols /\ "StudentID" \notin cols /\ Len(rows) > 0 THEN Raised
    ELSE LET Grade         == [i \in DOMAIN rows |-> marks_to_grade(self, Num(rows[i]["Marks"]))]
             GPA_Points    == [i \in DOMAIN rows |-> marks_to_points(self, Num(rows[i]["Marks"]))]
             grade_dist    == value_counts(Grade)
             passing_grades == { g \in DOMAIN grade_dist : is_passing_grade(self, g) }
             passing_count == Cardinality({ i \in DOMAIN rows : Grade[i] \in passing_grades })
             total_count   == Len(rows)
             PointsOf(d)   == LET In(i) == rows[i]["Department"] = d
                              IN  [k \in 1..Cardinality({ i \in DOMAIN rows : In(i) }) |->
                                      GPA_Points[CHOOSE i \in DOMAIN rows :
                                          /\ In(i)
                                          /\ Cardinality({ j \in 1..i : In(j) }) = k]]
             dept_stats    ==
                 IF "Department" \in cols
                 THEN [d \in Range(Column(rows, "Department")) |->
                          DeptGradeStats(RowsWhere(rows, "Department", d), PointsOf(d), self)]
                 ELSE EmptyDict
         IN  Returned(
                 [ grade_distribution    |-> grade_dist,
                   pass_rate             |-> PassRate(passing_count, total_count),
                   passing_count         |-> passing_count,
                   failing_count         |-> total_count - passing_count,
                   gpa_statistics        |-> [ mean   |-> SeriesMean(GPA_Points),
                                               median |-> SeriesMedian(GPA_Points),
                                               std    |-> SeriesStd(GPA_Points),
                                               min    |-> SeriesMin(GPA_Points),
                                               max    |-> SeriesMax(GPA_Points) ],
                   department_statistics |-> dept_stats,
                   total_records         |-> total_count ])

\* ------------------------------------------------- specification SpecStats
StatsColumns == {"StudentID", "Department", "Marks"}

\* The column sets of the frames: all three columns, two of them, or none
\* at all (pd.DataFrame()).
StatsColumnSets == OneMissing(StatsColumns) \cup { {} }

StatsNumbers == [ Marks |-> { 4500, 6500, 8500 } ]

StatsScales == { DEFAULT_4_0_SCALE, EUROPEAN_SCALE, PASS_NOPASS_SCALE }

InitStats ==
    /\ scale \in StatsScales
    /\ columns \in StatsColumnSets
    /\ df = <<>>
    /\ op = "init"
    /\ arg = 0
    /\ res = ""

AddStatsRow ==
    /\ op = "init"
    /\ columns # {}
    /\ Len(df) < MaxRows
    /\ \E r \in NextRows(df, columns, StatsNumbers) : df' = Append(df, r)
    /\ UNCHANGED <<scale, columns, op, arg, res>>

GetGradeStatistics ==
    /\ op = "init"
    /\ op' = "get_grade_statistics"
    /\ res' = get_grade_statistics(df, columns, scale)
    /\ UNCHANGED <<scale, df, columns, arg>>

NextStats == AddStatsRow \/ GetGradeStatistics

SpecStats == InitStats /\ [][NextStats]_vars

\* ------------------------------------------------------------------ C24
\* C24: on an empty record table get_grade_statistics does not raise and
\* returns total_records = 0, pass_rate = 0.0, passing_count = 0 and
\* failing_count = 0.
C24_EmptyStatistics ==
    (op = "get_grade_statistics" /\ Empty(df, columns)) =>
        /\ ~res.raised
        /\ res.value.total_records = 0
        /\ res.value.pass_rate = 0
        /\ res.value.passing_count = 0
        /\ res.value.failing_count = 0

\* What holds: the zeros are returned for a frame without rows that has a
\* Marks column (its GPA statistics are all NaN); without a Marks column,
\* and so for the frame without columns, the call raises.
C24_EmptyNeedsMarks ==
    (op = "get_grade_statistics" /\ Empty(df, columns)) =>
        /\ res.raised <=> "Marks" \notin columns
        /\ ~res.raised =>
             /\ res.value.total_records = 0
             /\ res.value.pass_rate = 0
             /\ res.value.passing_count = 0
             /\ res.value.failing_count = 0
             /\ res.value.gpa_statistics.mean.nan
             /\ res.value.grade_distribution = EmptyDict

\* ------------------------------------------------------------------ C25
\* The grade expected of each mark (hundredths) and the points (tenths)
\* expected of it.
C25_Grades ==
    [ m \in { 9500, 9000, 8500, 8000, 7500, 7000, 6500, 6000, 5500 } |->
        CASE m = 9500 -> "A+" [] m = 9000 -> "A"  [] m = 8500 -> "A-"
          [] m = 8000 -> "B-" [] m = 7500 -> "B"  [] m = 7000 -> "C-"
          [] m = 6500 -> "C"  [] m = 6000 -> "D"  [] m = 5500 -> "F" ]

C25_Points ==
    [ m \in DOMAIN C25_Grades |->
        CASE m = 9500 -> 40 [] m = 9000 -> 40 [] m = 8500 -> 37
          [] m = 8000 -> 27 [] m = 7500 -> 30 [] m = 7000 -> 17
          [] m = 6500 -> 20 [] m = 6000 -> 10 [] m = 5500 -> 0 ]

\* C25: on the default 4.0 scale marks_to_grade maps 95 to A+, 90 to A, 85
\* to A-, 80 to B-, 75 to B, 70 to C-, 65 to C, 60 to D and 55 to F, and
\* marks_to_points maps the same marks to 4.0, 4.0, 3.7, 2.7, 3.0, 1.7, 2.0,
\* 1.0 and 0.0.
C25_TableOfMarks ==
    (scale = DEFAULT_4_0_SCALE /\ op \in { "marks_to_grade", "marks_to_points" }
        /\ arg \in { Num(m) : m \in DOMAIN C25_Grades }) =>
        /\ op = "marks_to_grade" => res = C25_Grades[arg.v]
        /\ op = "marks_to_points" => res = C25_Points[arg.v]

\* What the 4.0 boundaries give for the nine marks: A, A-, B, B-, C, C-, D,
\* F, F and 4.0, 3.7, 3.0, 2.7, 2.0, 1.7, 1.0, 0.0, 0.0; the table of C25 is
\* right for the grades of 80, 70 and 55 and for the points of 95, 80, 70
\* and 55 only.
C25_ByBoundaries ==
    (scale = DEFAULT_4_0_SCALE /\ op \in { "marks_to_grade", "marks_to_points" }
        /\ arg \in { Num(m) : m \in DOMAIN C25_Grades }) =>
        /\ op = "marks_to_grade" =>
             /\ res = CASE arg.v = 9500 -> "A"  [] arg.v = 9000 -> "A-" [] arg.v = 8500 -> "B"
                         [] arg.v = 8000 -> "B-" [] arg.v = 7500 -> "C"  [] arg.v = 7000 -> "C-"
                         [] arg.v = 6500 -> "D"  [] arg.v = 6000 -> "F"  [] arg.v = 5500 -> "F"
             /\ res = C25_Grades[arg.v] <=> arg.v \in { 8000, 7000, 5500 }
        /\ op = "marks_to_points" =>
             /\ res = CASE arg.v = 9500 -> 40 [] arg.v = 9000 -> 37 [] arg.v = 8500 -> 30
                         [] arg.v = 8000 -> 27 [] arg.v = 7500 -> 20 [] arg.v = 7000 -> 17
                         [] arg.v = 6500 -> 10 [] arg.v = 6000 -> 0  [] arg.v = 5500 -> 0
             /\ res = C25_Points[arg.v] <=> arg.v \in { 9500, 8000, 7000, 5500 }

\* ------------------------------------------- GradeScale objects and sharing
\* The dict objects of the program, by address: store.mappings holds the
\* grade_mappings dicts and store.boundaries the grade_boundaries dicts.
\* Addresses 1 and 2 are the entries "4.0" and "100" of the tables of
\* config.py. A GradeScale object holds the addresses of its two dicts.
ConfigStore ==
    [ mappings   |-> << DEFAULT_GRADE_MAPPINGS["4.0"], DEFAULT_GRADE_MAPPINGS["100"] >>,
      boundaries |-> << GRADE_BOUNDARIES["4.0"], GRADE_BOUNDARIES["100"] >> ]

\* get_grade_mapping and get_grade_boundaries return the dict of the table
\* itself, not a copy: the address of the entry, that of "4.0" by default.
GradeMappingRef(s) == IF s = "100" THEN 2 ELSE 1
GradeBoundariesRef(s) == IF s = "100" THEN 2 ELSE 1

\* Mutant of ApplyCustomConfigRefs: the configured mappings are merged into
\* the dict the object already holds (dict.update) instead of replacing it.
ApplyCustomConfigRefs_Update(store, self, config) ==
    [ store |-> IF "grade_mappings" \in DOMAIN config
                THEN [store EXCEPT !.mappings[self.grade_mappings] =
                         [g \in DOMAIN @ \cup DOMAIN store.mappings[config.grade_mappings] |->
                             IF g \in DOMAIN store.mappings[config.grade_mappings]
                             THEN store.mappings[config.grade_mappings][g] ELSE @[g]]]
                ELSE store,
      self  |-> [ scale_type       |-> self.scale_type,
                  grade_mappings   |-> self.grade_mappings,
                  grade_boundaries |-> IF "grade_boundaries" \in DOMAIN config
                                       THEN config.grade_boundaries ELSE self.grade_boundaries,
                  passing_grade    |-> IF "passing_grade" \in DOMAIN config
                                       THEN config.passing_grade ELSE self.passing_grade ] ]

\* _apply_custom_config on objects: each configured attribute is rebound to
\* the caller's dict; no dict is written.
ApplyCustomConfigRefs(store, self, config) ==
    [ store |-> store,
      self  |-> [ scale_type       |-> self.scale_type,
                  grade_mappings   |-> IF "grade_mappings" \in DOMAIN config
                                       THEN config.grade_mappings ELSE self.grade_mappings,
                  grade_boundaries |-> IF "grade_boundaries" \in DOMAIN config
                                       THEN config.grade_boundaries ELSE self.grade_boundaries,
                  passing_grade    |-> IF "passing_grade" \in DOMAIN config
                                       THEN config.passing_grade ELSE self.passing_grade ] ]

\* GradeScale.__init__ on objects: the new object and the store after it.
NewGradeScale(store, scale_type, custom_config) ==
    LET self == [ scale_type       |-> scale_type,
                  grade_mappings   |-> GradeMappingRef(scale_type),
                  grade_boundaries |-> GradeBoundariesRef(scale_type),
                  passing_grade    |-> "D" ]
    IN  IF DOMAIN custom_config # {}
        THEN ApplyCustomConfigRefs(store, self, custom_config)
        ELSE [store |-> store, self |-> self]

\* The scale an object stands for: its attributes with the dicts read
\* through their addresses.
Deref(store, self) ==
    [ scale_type       |-> self.scale_type,
      grade_mappings   |-> store.mappings[self.grade_mappings],
      grade_boundaries |-> store.boundaries[self.grade_boundaries],
      passing_grade    |-> self.passing_grade ]

\* GradeScale.get_grade_distribution
get_grade_distribution(self, marks_series) ==
    value_counts([i \in DOMAIN marks_series |-> marks_to_grade(self, marks_series[i])])

\* ------------------------------------------------ specification SpecObjects
\* In this specification the variable scale is the sequence of GradeScale
\* objects and df is the store of dict objects.

\* Most GradeScale objects constructed after the module is imported.
MaxConstructed == 1

\* The state after grading.py is imported: the tables of config.py, the
\* dicts of EUROPEAN_SCALE, and the objects DEFAULT_4_0_SCALE,
\* DEFAULT_100_SCALE and EUROPEAN_SCALE.
ImportedStore ==
    [ mappings   |-> Append(ConfigStore.mappings, EUROPEAN_SCALE.grade_mappings),
      boundaries |-> Append(ConfigStore.boundaries, EUROPEAN_SCALE.grade_boundaries) ]

ImportedScales ==
    << NewGradeScale(ImportedStore, "4.0", EmptyDict).self,
       NewGradeScale(ImportedStore, "100", EmptyDict).self,
       NewGradeScale(ImportedStore, "custom",
                     [grade_mappings |-> 3, grade_boundaries |-> 3, passing_grade |-> "D"]).self >>

\* The dicts a caller builds for a custom configuration.
CallerMappings == PASS_NOPASS_SCALE.grade_mappings
CallerBoundaries == PASS_NOPASS_SCALE.grade_boundaries

ObjectMarks == { Num(4500), Num(8500) }
ObjectGrades == { "A", "F" }
ObjectRecords == << [Marks |-> 8500, CreditHours |-> 30], [Marks |-> 4500, CreditHours |-> 30] >>

InitObjects ==
    /\ scale = ImportedScales
    /\ df = ImportedStore
    /\ columns = {}
    /\ op = "init"
    /\ arg = [self |-> 0]
    /\ res = ""

\* GradeScale(scale_type, custom_config): the configuration has no
\* grade_mappings, a dict the caller has just built, or a dict that exists
\* already (one of the tables, or the dict of another object); the same
\* for grade_boundaries.
\* The dict a configuration names: none, one just built, or one at address at.
DictChoices(dicts) ==
    { [kind |-> "none", at |-> 0], [kind |-> "new", at |-> 0] }
        \cup { [kind |-> "old", at |-> a] : a \in DOMAIN dicts }

Construct ==
    \E scale_type \in { "4.0", "custom" },
       m \in DictChoices(df.mappings),
       b \in DictChoices(df.boundaries) :
        LET store == [ mappings   |-> IF m.kind = "new" THEN Append(df.mappings, CallerMappings)
                                      ELSE df.mappings,
                       boundaries |-> IF b.kind = "new" THEN Append(df.boundaries, CallerBoundaries)
                                      ELSE df.boundaries ]
            mref == IF m.kind = "new" THEN Len(store.mappings) ELSE m.at
            bref == IF b.kind = "new" THEN Len(store.boundaries) ELSE b.at
            custom_config ==
                CASE m.kind = "none" /\ b.kind = "none" -> EmptyDict
                  [] m.kind = "none" /\ b.kind # "none" -> [grade_boundaries |-> bref]
                  [] m.kind # "none" /\ b.kind = "none" ->
                         [grade_mappings |-> mref, passing_grade |-> "P"]
                  [] OTHER -> [grade_mappings |-> mref, grade_boundaries |-> bref,
                               passing_grade |-> "P"]
            made == NewGradeScale(store, scale_type, custom_config)
        IN  /\ op \in { "init", "GradeScale" }
            /\ Len(scale) < Len(ImportedScales) + MaxConstructed
            /\ df' = made.store
            /\ scale' = Append(scale, made.self)
            /\ op' = "GradeScale"
            /\ arg' = [self |-> Len(scale) + 1]
            /\ res' = ""
            /\ UNCHANGED columns

\* A call of a method of object i, or of a function that is given object i
\* as its scale: the result is computed from the object's dicts, and the
\* code assigns to no attribute and writes to no dict. One call is observed
\* per run, after the constructions.
Convert ==
    \E i \in DOMAIN scale :
        LET self == Deref(df, scale[i])
        IN  /\ op \in { "init", "GradeScale" }
            /\ \/ \E marks \in ObjectMarks :
                    \/ (op' = "marks_to_grade" /\ res' = marks_to_grade(self, marks))
                    \/ (op' = "marks_to_points" /\ res' = marks_to_points(self, marks))
                \/ \E grade \in ObjectGrades :
                    \/ (op' = "grade_to_points" /\ res' = grade_to_points(self, grade))
                    \/ (op' = "is_passing_grade" /\ res' = is_passing_grade(self, grade))
                \/ /\ op' = "get_grade_distribution"
                   /\ res' = get_grade_distribution(self, << Num(8500), Num(4500), Num(8500) >>)
            /\ arg' = [self |-> i]
            /\ UNCHANGED <<scale, df, columns>>

Inspect ==
    \E i \in DOMAIN scale :
        LET self == Deref(df, scale[i])
        IN  /\ op \in { "init", "GradeScale" }
            /\ \/ (op' = "export_config" /\ res' = export_config(self))
                \/ (op' = "validate_grade_scale" /\ res' = validate_grade_scale(self))
            /\ arg' = [self |-> i]
            /\ UNCHANGED <<scale, df, columns>>

Compute ==
    \E i \in DOMAIN scale :
        LET self == Deref(df, scale[i])
        IN  /\ op \in { "init", "GradeScale" }
            /\ \/ /\ op' = "compute_student_gpa"
                   /\ res' = compute_student_gpa(ObjectRecords, self)
                \/ /\ op' = "get_grade_statistics"
                   /\ res' = get_grade_statistics(ObjectRecords, {"Marks", "CreditHours"}, self)
            /\ arg' = [self |-> i]
            /\ UNCHANGED <<scale, df, columns>>

NextObjects == Construct \/ Convert \/ Inspect \/ Compute

SpecObjects == InitObjects /\ [][NextObjects]_vars

\* ------------------------------------------------------------------ C26
\* The tables of config.py hold what config.py gives them.
DefaultTablesIntact ==
    /\ df.mappings[1] = DEFAULT_GRADE_MAPPINGS["4.0"]
    /\ df.mappings[2] = DEFAULT_GRADE_MAPPINGS["100"]
    /\ df.boundaries[1] = GRADE_BOUNDARIES["4.0"]
    /\ df.boundaries[2] = GRADE_BOUNDARIES["100"]

\* A step leaves every existing object and every existing dict as it was.
NothingWritten ==
    /\ \A i \in DOMAIN scale :
         /\ scale'[i] = scale[i]
         /\ Deref(df', scale'[i]) = Deref(df, scale[i])
    /\ \A a \in DOMAIN df.mappings : df'.mappings[a] = df.mappings[a]
    /\ \A a \in DOMAIN df.boundaries : df'.boundaries[a] = df.boundaries[a]

\* C26: a GradeScale is read-only after construction: no conversion, export,
\* validation, GPA or aggregate computation, and no construction of another
\* GradeScale, changes the scale_type, grade_mappings, grade_boundaries or
\* passing_grade of an existing GradeScale, or the built-in default tables.
C26_ReadOnly == [][NothingWritten]_vars /\ []DefaultTablesIntact

\* A scale constructed on "4.0" with custom mappings exists next to
\* DEFAULT_4_0_SCALE, whose grade_mappings is the table of config.py
\* itself, and a conversion has run on the new scale (no grade of the 4.0
\* boundaries is in its mappings: 0 points).
C26_Witness ==
    /\ Len(scale) = 4
    /\ scale[1].grade_mappings = 1
    /\ scale[4].scale_type = "4.0"
    /\ scale[4].grade_mappings = 4
    /\ scale[4].grade_boundaries = 1
    /\ op = "marks_to_points"
    /\ arg.self = 4
    /\ res = 0

\* ------------------------------------------------------------------ C27
\* The marks a validated record can carry, among those handed to the
\* conversions.
RecordableMarks == { m \in MarkValues : 0 <= m /\ m <= 10000 }

\* C27: on each built-in scale marks_to_points never decreases as the mark
\* increases over the marks a validated record can carry, fractional marks
\* included: a mark not above the converted one has no more points.
C27_Monotone ==
    (op = "marks_to_points" /\ scale \in BuiltinScales /\ arg.kind = "num"
        /\ arg.v \in RecordableMarks) =>
        \A m \in RecordableMarks :
            m <= arg.v => marks_to_points(scale, Num(m)) <= res

\* What holds: the same over whole marks, which the ranges of the built-in
\* scales cover without a gap; a mark strictly between two ranges (89.5)
\* is graded F and has 0 points.
C27_WholeMarks ==
    (op = "marks_to_points" /\ scale \in BuiltinScales /\ arg.kind = "num"
        /\ arg.v \in RecordableMarks) =>
        /\ arg.v % 100 = 0 =>
             \A m \in RecordableMarks :
                 (m % 100 = 0 /\ m <= arg.v) => marks_to_points(scale, Num(m)) <= res
        /\ arg.v \in { 5950, 8950 } => res = 0

\* ------------------------------------------------------------------ C28
\* The rows of the course of entry i of the result.
CourseRows(i) == RowsWhere(df, "CourseCode", res.value[i].course_code)

\* The number of rows whose mark the scale itself rates as passing.
PassingByScale(rows) ==
    Cardinality({ k \in DOMAIN rows :
        is_passing_grade(scale, marks_to_grade(scale, Num(rows[k]["Marks"]))) })

\* C28: when a scale is supplied, subject_stats counts a row as passing
\* exactly when is_passing_grade(marks_to_grade(marks)) is true: for every
\* course the pass rate of its entry is that of the rows the scale rates as
\* passing, which is the pass count and pass rate get_grade_statistics
\* gives for the rows of the course.
C28_PassesByScale ==
    (op = "subject_stats" /\ HasScale(scale) /\ { "CourseCode", "Marks" } \subseteq columns) =>
        \A i \in DOMAIN res.value :
            LET stats == get_grade_statistics(CourseRows(i), columns, scale)
            IN  /\ ~stats.raised
                /\ stats.value.passing_count = PassingByScale(CourseRows(i))
                /\ res.value[i].pass_rate = stats.value.pass_rate
                /\ res.value[i].pass_rate =
                       PassRate(PassingByScale(CourseRows(i)), res.value[i].total_students)

\* What get_grade_statistics and the scale agree on, and what subject_stats
\* does on the 4.0 scale: a course with a mark of 45 (an F) and no other
\* is reported with a pass rate of 100.
C28_FailingMarkCounted ==
    (op = "subject_stats" /\ HasScale(scale) /\ { "CourseCode", "Marks" } \subseteq columns) =>
        \A i \in DOMAIN res.value :
            /\ get_grade_statistics(CourseRows(i), columns, scale).value.passing_count
                   = PassingByScale(CourseRows(i))
            /\ (scale = DEFAULT_4_0_SCALE
                    /\ \A k \in DOMAIN CourseRows(i) : CourseRows(i)[k]["Marks"] = 4500) =>
                   /\ PassingByScale(CourseRows(i)) = 0
                   /\ res.value[i].pass_rate = 10000

\* ------------------------------------------------------------------ C29
\* Insertion orders of a grade_boundaries dict: two entries exchanged, the
\* entries rotated, the entries reversed (every order of up to three
\* entries is one of these).
Swapped(bounds, i, j) ==
    [k \in DOMAIN bounds |-> IF k = i THEN bounds[j] ELSE IF k = j THEN bounds[i] ELSE bounds[k]]

Rotated(bounds, n) ==
    [k \in DOMAIN bounds |-> bounds[((k + n - 1) % Len(bounds)) + 1]]

Reversed(bounds) ==
    [k \in DOMAIN bounds |-> bounds[Len(bounds) + 1 - k]]

Reorderings(bounds) ==
    { Swapped(bounds, i, j) : i, j \in DOMAIN bounds }
        \cup { Rotated(bounds, n) : n \in DOMAIN bounds }
        \cup { Reversed(bounds) }

\* The scale with its grade_boundaries inserted in another order.
Reordered(self, bounds) == [self EXCEPT !.grade_boundaries = bounds]

\* marks_to_grade gives every mark handed to the conversions the same grade
\* on every reordering of the scale.
OrderIndependent(self) ==
    \A bounds \in Reorderings(self.grade_boundaries) :
        \A m \in MarkValues :
            marks_to_grade(Reordered(self, bounds), Num(m)) = marks_to_grade(self, Num(m))

\* C29: on every scale for which validate_grade_scale returns no violation
\* no two boundary ranges share a mark, at most one range contains any
\* given mark, and marks_to_grade is the same for every insertion order of
\* grade_boundaries; so a scale whose lookup depends on the order is one the
\* validation flags.
C29_OrderIndependent ==
    op = "validate_grade_scale" =>
        /\ ErrorCount(res) = 0 =>
             /\ \A i, j \in DOMAIN scale.grade_boundaries :
                  i # j => ~SharesMark(scale.grade_boundaries[i], scale.grade_boundaries[j])
             /\ \A m \in MarkValues : Cardinality(Containing(scale, m)) <= 1
             /\ OrderIndependent(scale)
        /\ ~OrderIndependent(scale) => res.overlaps > 0

\* A custom scale of two ranges that passes the validation, with a mark in
\* its second range.
C29_Witness ==
    /\ op = "validate_grade_scale"
    /\ scale.scale_type = "custom"
    /\ Len(scale.grade_boundaries) = 2
    /\ ErrorCount(res) = 0
    /\ Containing(scale, 9500) = { 2 }

\* A scale whose lookup depends on the order exists, and it is flagged.
C29_FlaggedWitness ==
    /\ op = "validate_grade_scale"
    /\ ~OrderIndependent(scale)
    /\ res.overlaps = 2

\* ------------------------------ semester_analysis, get_performance_trends
\* The entry of semester_analysis for the rows of one semester.
SemesterStats(sem_df, cols, self) ==
    LET by_gpa   == HasScale(self) /\ "Marks" \in cols /\ "CreditHours" \in cols
        sem_gpas == StudentGpas(sem_df, cols, self)
    IN  [ total_students |-> nunique(sem_df, "StudentID"),
          total_courses  |-> nunique(sem_df, "CourseCode"),
          average_gpa    |-> IF by_gpa THEN NpMean(sem_gpas)
                             ELSE IF "Marks" \in cols THEN ProxyMean(Column(sem_df, "Marks"))
                             ELSE 0,
          median_gpa     |-> IF by_gpa THEN NpMedian(sem_gpas)
                             ELSE IF "Marks" \in cols THEN ProxyMedian(Column(sem_df, "Marks"))
                             ELSE 0 ]

\* semester_analysis: the empty dict for an empty frame or one without a
\* Semester column; StudentID and CourseCode are read without a test (a
\* KeyError, re-raised as ValueError); else one entry per semester.
semester_analysis(rows, cols, self) ==
    IF Empty(rows, cols) \/ "Semester" \notin cols THEN Returned(EmptyDict)
    ELSE IF "StudentID" \notin cols \/ "CourseCode" \notin cols THEN Raised
    ELSE Returned([semester \in Range(Column(rows, "Semester")) |->
                      SemesterStats(RowsWhere(rows, "Semester", semester), cols, self)])

\* The semester labels of the tables in the order of sorted().
SemesterOrder == << "Fall", "Spring" >>

\* sorted(df['Semester'].unique())
SortedSemesters(rows) ==
    LET Present(semester) == Contains(Column(rows, "Semester"), semester)
    IN  SelectSeq(SemesterOrder, Present)

\* The average GPA get_performance_trends reports for the rows of a semester.
TrendAverage(sem_df, cols, self) ==
    IF HasScale(self) /\ "Marks" \in cols /\ "CreditHours" \in cols
    THEN NpMean(StudentGpas(sem_df, cols, self))
    ELSE IF "Marks" \in cols THEN ProxyMean(Column(sem_df, "Marks")) ELSE 0

\* The pass rate it reports: by GPA with a scale and a Marks column, else 0.0.
TrendPassRate(sem_df, cols, self) ==
    IF HasScale(self) /\ "Marks" \in cols
    THEN PassRate(PassingByGpa(sem_df, cols, self), nunique(sem_df, "StudentID"))
    ELSE 0

\* get_performance_trends: the empty dict for an empty frame or one without
\* a Semester column; StudentID is read without a test; else the sorted
\* semesters and, for each, the average GPA, pass rate and student count.
get_performance_trends(rows, cols, self) ==
    IF Empty(rows, cols) \/ "Semester" \notin cols THEN Returned(EmptyDict)
    ELSE IF "StudentID" \notin cols THEN Raised
    ELSE LET semesters == SortedSemesters(rows)
             sem_df(i) == RowsWhere(rows, "Semester", semesters[i])
         IN  Returned(
                 [ semesters                  |-> semesters,
                   average_gpa_by_semester    |->
                       [i \in DOMAIN semesters |-> TrendAverage(sem_df(i), cols, self)],
                   pass_rate_by_semester      |->
                       [i \in DOMAIN semesters |-> TrendPassRate(sem_df(i), cols, self)],
                   total_students_by_semester |->
                       [i \in DOMAIN semesters |-> nunique(sem_df(i), "StudentID")] ])

\* ---------------------------------------------- specification SpecSemester
SemesterColumns == {"StudentID", "Semester", "CourseCode", "Marks", "CreditHours"}

SemesterScales == { NoScale, DEFAULT_4_0_SCALE }

\* The values a column may take in the next row: student labels in order
\* of introduction, either semester, one course, a failing or a passing
\* mark, three credit hours.
SemesterValues(rows, col) ==
    CASE col = "StudentID"   -> NextLabels(rows, col, StudentIDs)
      [] col = "Semester"    -> Range(SemesterOrder)
      [] col = "CourseCode"  -> { "C1" }
      [] col = "Marks"       -> { 4500, 8500 }
      [] col = "CreditHours" -> { 30 }

RECURSIVE SemesterRowsOver(_, _, _)
SemesterRowsOver(rows, all, cols) ==
    IF cols = {} THEN { [x \in all |-> 0] }
    ELSE LET c == CHOOSE x \in cols : TRUE
         IN  { [r EXCEPT ![c] = v] :
                   r \in SemesterRowsOver(rows, all, cols \ {c}),
                   v \in SemesterValues(rows, c) }

InitSemester ==
    /\ scale \in SemesterScales
    /\ columns \in OneMissing(SemesterColumns)
    /\ df = <<>>
    /\ op = "init"
    /\ arg = 0
    /\ res = ""

AddSemesterRow ==
    /\ op = "init"
    /\ Len(df) < MaxRows
    /\ \E r \in SemesterRowsOver(df, columns, columns) : df' = Append(df, r)
    /\ UNCHANGED <<scale, columns, op, arg, res>>

SemesterAnalysis ==
    /\ op = "init"
    /\ op' = "semester_analysis"
    /\ res' = semester_analysis(df, columns, scale)
    /\ UNCHANGED <<scale, df, columns, arg>>

GetPerformanceTrends ==
    /\ op = "init"
    /\ op' = "get_performance_trends"
    /\ res' = get_performance_trends(df, columns, scale)
    /\ UNCHANGED <<scale, df, columns, arg>>

NextSemester == AddSemesterRow \/ SemesterAnalysis \/ GetPerformanceTrends

SpecSemester == InitSemester /\ [][NextSemester]_vars

\* ------------------------------------------------------------------ C30
\* A non-empty table with all the columns whose rows all belong to one
\* semester.
OneSemester ==
    /\ columns = SemesterColumns
    /\ Len(df) > 0
    /\ \A i \in DOMAIN df : df[i]["Semester"] = df[1]["Semester"]

\* C30: for every table whose rows all belong to one semester, with or
\* without a scale, get_performance_trends reports for that semester the
\* student count, average GPA and pass rate of cohort_summary on the whole
\* table, and semester_analysis its total_students and average_gpa.
C30_SameAsCohort ==
    LET summary == cohort_summary(df, columns, scale)
    IN  /\ (op = "get_performance_trends" /\ OneSemester) =>
              /\ ~res.raised /\ ~summary.raised
              /\ res.value.total_students_by_semester = << summary.value.total_students >>
              /\ res.value.average_gpa_by_semester = << summary.value.average_gpa >>
              /\ res.value.pass_rate_by_semester = << summary.value.pass_rate >>
        /\ (op = "semester_analysis" /\ OneSemester) =>
              /\ ~res.raised /\ ~summary.raised
              /\ res.value[df[1]["Semester"]].total_students = summary.value.total_students
              /\ res.value[df[1]["Semester"]].average_gpa = summary.value.average_gpa

\* What holds on those tables: everything but the pass rate without a
\* scale, which get_performance_trends reports as 0.0 while cohort_summary
\* counts the students whose mean mark is at least 60.
C30_ButPassRateWithoutScale ==
    LET summary == cohort_summary(df, columns, scale)
    IN  /\ (op = "get_performance_trends" /\ OneSemester) =>
              /\ ~res.raised /\ ~summary.raised
              /\ res.value.total_students_by_semester = << summary.value.total_students >>
              /\ res.value.average_gpa_by_semester = << summary.value.average_gpa >>
              /\ HasScale(scale) =>
                    res.value.pass_rate_by_semester = << summary.value.pass_rate >>
              /\ ~HasScale(scale) =>
                    /\ res.value.pass_rate_by_semester = << 0 >>
                    /\ summary.value.pass_rate =
                          PassRate(PassingByMarks(df), summary.value.total_students)
        /\ (op = "semester_analysis" /\ OneSemester) =>
              /\ ~res.raised /\ ~summary.raised
              /\ res.value[df[1]["Semester"]].total_students = summary.value.total_students
              /\ res.value[df[1]["Semester"]].average_gpa = summary.value.average_gpa
====
